---------------------------- MODULE Spec2Model ----------------------------
(***************************************************************************)
(* A model of the pixi-examples demo suite.                                *)
(*                                                                         *)
(*  SpecSM : the scene lifecycle (SceneManager.changeScene and its         *)
(*           callers: Main's boot sequence, the menu buttons, the back     *)
(*           button, the Seeds restart timer), the ticker and resize.      *)
(*  SpecMT : one MixedText instance under its public methods and the       *)
(*           animation ticker that drives its typewriter timeline.         *)
(*                                                                         *)
(* One action is one run-to-completion segment of JavaScript: a handler    *)
(* up to its first await, or the continuation of an await up to the next.  *)
(* `log` holds the calls the last segment made, in the order it made them. *)
(***************************************************************************)
EXTENDS Integers, Sequences, FiniteSets, TLC

(***************************************************************************)
(* Bounds of the model.                                                    *)
(***************************************************************************)
\* scene objects constructed in one run (SceneManager.loadingScene included)
MaxScenes == 6
\* the clock stops advancing here (milliseconds)
MaxNow == 1200
\* the longest text handed to MixedText (characters)
MaxLen == 3
MaxSetLen == 1
\* the number of method calls made on one MixedText
MaxCalls == 3
\* the animation clock of Ace of Shadows stops here (ms), and an idle scene is
\* watched for this long after the last firing
MaxAceNow == 150000
MaxIdle == 2000
\* Seeds: update() calls and spawned seeds in one run, and the seeds put near the magnet
MaxUpdates == 2
MaxSpawns == 1
MaxNear == 12
\* Sound: the clock stops here (ms), and the mute calls made in one run
MaxSndNow == 1200
MaxMuteCalls == 3
\* Main: the largest viewport handed to applyFixedCanvasScale (CSS pixels)
MaxViewW == 730
MaxViewH == 1290
\* Magic Words: the lines of the dialogue and the taps in one run
MaxLines == 2
MaxTaps == 3

(***************************************************************************)
(* Program constants.                                                      *)
(***************************************************************************)
DESIGN_W == 720
DESIGN_H == 1280
MIN_LOADING_TIME == 500
NUM_CARDS == 144
FULL_STACK_THRESHOLD == 30
CARD_MOVE_DELAY == 1

\* `undefined` for an object reference (object ids start at 1)
UNDEF == 0
\* the bundleId parameter left out
NoBundle == "<undefined>"

\* the amounts the clock advances by between two segments (milliseconds)
TickSteps == {200, 300}
\* the values Assets.loadBundle reports to its progress callback (percent)
ProgressValues == {0, 50, 100}

VARIABLES
    scenes,        \* every IScene object constructed so far; its index is its identity
    stage,         \* app.stage.children restricted to scenes, bottom to top
    currentScene,  \* SceneManager.currentScene (UNDEF or an index of scenes)
    loadingScene,  \* SceneManager.loadingScene (UNDEF before SceneManager.init)
    call,          \* the activation of changeScene that is in flight or returned last
    cache,         \* the bundles whose assets are in Assets.cache
    now,           \* Date.now()
    bootPc,        \* Main: "new", "interval", "timeout", "done"
    log            \* the calls made by the last segment

smVars == <<scenes, stage, currentScene, loadingScene, call, cache, now, bootPc>>

VARIABLES
    opts,              \* MixedText._opts: text, maxWidth, placeholderTexture
    texCache,          \* the aliases Assets.cache holds a texture for
    objs,              \* every Text and Sprite the instance created; its index is its identity
    elements,          \* MixedText._elements
    textPool,          \* MixedText._textPool
    spritePool,        \* MixedText._spritePool
    originalScales,    \* MixedText._originalScales
    typewriteTimeline, \* MixedText._typewriteTimeline (NoTimeline for null)
    isTyping,          \* MixedText._isTyping
    mtDestroyed,       \* destroy() ran
    lastOp,            \* the method that ran last
    mtCalls,           \* how many methods have been called on the instance
    stopSnap,          \* what the last stopTypewrite() left when it returned
    cbCalls            \* cbCalls[k]: how often the onComplete of the k-th typewrite() was called

mtVars == <<opts, texCache, objs, elements, textPool, spritePool, originalScales,
            typewriteTimeline, isTyping, mtDestroyed, lastOp, mtCalls, stopSnap,
            cbCalls>>

\* Ace of Shadows
VARIABLES
    acePc,         \* "constructed", "running" (init returned), "failed" (init threw), "cleaned"
    startPos,      \* AceOfShadowsScene.startPos, in tenths of a pixel
    endPos,        \* AceOfShadowsScene.endPos, in tenths of a pixel
    stack1,        \* AceOfShadowsScene.stack1, bottom to top; a card is its index in cards
    stack2,        \* AceOfShadowsScene.stack2
    cardChildren,  \* the cards among the scene's children, bottom to top
    cardTarget,    \* where the timeline of a card's last move ends (its position before a move)
    isRunning,     \* AceOfShadowsScene._isRunning
    aceTimer,      \* AceOfShadowsScene.timer: the delayed call and when it is due
    aceNow,        \* the animation clock, ms
    aceFired,      \* how often the delayed call has fired
    lastFire       \* the last firing: when, the one before, and the top of stack1 it found

aceVars == <<acePc, startPos, endPos, stack1, stack2, cardChildren, cardTarget, isRunning,
             aceTimer, aceNow, aceFired, lastFire>>

\* Seeds
VARIABLES
    seeds,           \* SeedsScene.seeds: records with id, x, y, vx, vy, state, floatTimer, trail, layer, tint
    seedPool,        \* SeedsScene._seedPool
    seedsMade,       \* how many seed sprites were created; a seed's id is its number
    trails,          \* every Trail created: its target seed and whether its rope is in the water container
    activeTrails,    \* SeedsScene.activeTrails
    trailPool,       \* SeedsScene._trailPool
    magnet,          \* magnetActive, magnetX, magnetY and whether _magnetTimeout is pending
    spawnInterval,   \* SeedsScene.spawnInterval is set
    seedsRestarting, \* SeedsScene._isRestarting
    restartTimeout,  \* SeedsScene._restartTimeout is pending
    seedTime,        \* SeedsScene.time, in hundredths
    sfxPlays,        \* how often sfxExplode.play() was called
    seedUpdates,     \* how many update() calls ran
    seedSpawns,      \* how many spawnSeed() calls ran
    seedsPc          \* "running" or "cleaned"

seedVars == <<seeds, seedPool, seedsMade, trails, activeTrails, trailPool, magnet,
              spawnInterval, seedsRestarting, restartTimeout, seedTime, sfxPlays,
              seedUpdates, seedSpawns, seedsPc>>

\* SoundManager, Howler, and the Phoenix Flame scene's use of them
VARIABLES
    sndSounds,       \* SoundManagerClass._sounds: the keys that map to a Howl
    howl,            \* the Howl made for 'fire-loop': state, playing, volume (percent), its fade, its 'fade' listener
    sndMuted,        \* SoundManagerClass._muted
    howlerMute,      \* the calls of Howler.mute: how many, and the value last passed
    btnMuted,        \* MuteButton._muted of the scene's mute button
    muteHist,        \* the last two calls of toggleMute / setMuted: op, _muted before, argument, returned value
    muteCalls,       \* how many toggleMute / setMuted calls ran
    phxPc,           \* PhoenixFlameScene: "none", "constructed", "running" or "left"
    sndNow,          \* the clock, ms
    phxTimes         \* when the scene was left, when the loop stopped playing, when its fade finished, when it was unloaded

sndVars == <<sndSounds, howl, sndMuted, howlerMute, btnMuted, muteHist, muteCalls, phxPc,
             sndNow, phxTimes>>

\* Main
VARIABLES
    mainPc,          \* Main.init: "new", "appInit" and "assetsInit" (awaiting), "ready" (returned)
    mainTimers,      \* _loadingInterval and _loadingTimeout, and whether the browser still holds each timer
    mainProgress,    \* the `progress` of the loading interval, percent
    fpsTicker,       \* _fpsTickerCallback, whether app.ticker holds it, and its `elapsed`
    listeners,       \* the event listeners registered: <<target, type>>
    browser,         \* what the page offers: window.visualViewport, requestFullscreen
    viewport,        \* the visible area: w, h, offsetLeft, offsetTop
    canvasStyle,     \* app.canvas.style: width, height, left, top
    mainDestroyed,   \* Main.destroy() has returned
    mainLate         \* what ran after destroy() returned

mainVars == <<mainPc, mainTimers, mainProgress, fpsTicker, listeners, browser, viewport,
              canvasStyle, mainDestroyed, mainLate>>

\* Magic Words
VARIABLES
    magicPc,         \* MagicWordsScene: "constructed", "loaded", "failed" or "cleaned"
    dialogueData,    \* MagicWordsScene._dialogueData: the texts of the lines
    currentIndex,    \* MagicWordsScene._currentIndex
    mixedTexts,      \* every MixedText showDialogue made: the line it shows and its state
    currentMixedText,\* MagicWordsScene._currentMixedText: an index of mixedTexts, 0 for null
    rafQueue,        \* the requestAnimationFrame callbacks waiting for the next frame
    taps,            \* how many pointertap events were handled
    lastTap          \* what the last tap found and did

magicVars == <<magicPc, dialogueData, currentIndex, mixedTexts, currentMixedText, rafQueue,
               taps, lastTap>>

vars == <<smVars, mtVars, log, aceVars, seedVars, sndVars, mainVars, magicVars>>

\* what the actions of one component leave alone
nonSM == <<mtVars, aceVars, seedVars, sndVars, mainVars, magicVars>>
nonMT == <<smVars, aceVars, seedVars, sndVars, mainVars, magicVars>>
nonAce == <<smVars, mtVars, log, seedVars, sndVars, mainVars, magicVars>>
nonSeeds == <<smVars, mtVars, log, aceVars, sndVars, mainVars, magicVars>>
nonSound == <<smVars, mtVars, log, aceVars, seedVars, mainVars, magicVars>>
nonMain == <<smVars, mtVars, log, aceVars, seedVars, sndVars, magicVars>>
nonMagic == <<smVars, mtVars, log, aceVars, seedVars, sndVars, mainVars>>

(***************************************************************************)
(* Scenes and what SceneManager needs to know of each class.               *)
(***************************************************************************)
\* the classes that implement init(): Promise<void>
HasInit(kind) == kind \in {"Ace", "Magic", "Phoenix"}

\* the classes whose constructor adds createBackButton()
BackInCtor(kind) == kind \in {"Ace", "Phoenix", "Seeds"}

\* MenuScene.createUI: buttonData
MenuButtons ==
    { [scene |-> "Ace",     bundle |-> "ace-of-shadows"],
      [scene |-> "Magic",   bundle |-> "magic-words"],
      [scene |-> "Phoenix", bundle |-> "phoenix-flame"],
      [scene |-> "Seeds",   bundle |-> ""] }

NewSceneRec(kind) ==
    [ kind         |-> kind,
      progress     |-> 0,       \* LoadingScene: the percentage shown
      cleanups     |-> 0,       \* times cleanup() ran
      destroyed    |-> FALSE,
      hasBack      |-> BackInCtor(kind),
      isRestarting |-> FALSE,   \* SeedsScene._isRestarting
      restartTimer |-> FALSE ]  \* SeedsScene._restartTimeout is pending

Ev(op, obj, a, b) == [op |-> op, obj |-> obj, a |-> a, b |-> b]

IdleCall ==
    [ pc         |-> "idle",    \* idle, loading, waiting, initing, done
      bundleId   |-> NoBundle,
      show       |-> FALSE,     \* showLoadingScreen
      startTime  |-> 0,
      isFn       |-> FALSE,     \* typeof sceneFactory === "function"
      kind       |-> "",        \* the class the factory constructs
      arg        |-> UNDEF,     \* the instance passed instead of a factory
      old        |-> UNDEF,     \* the scene that was current when the call began
      newScene   |-> UNDEF,
      promise    |-> "none",    \* none, pending, resolved, rejected
      loadFailed |-> FALSE,
      deadline   |-> 0,         \* when the minimum-display timer is due
      settledAt  |-> 0,         \* when the bundle load settled
      waited     |-> FALSE,     \* the minimum-display timer was set
      createdAt  |-> 0,         \* when step 4 ran
      resizes    |-> 0 ]        \* resize() calls SceneManager made on newScene during the call

(***************************************************************************)
(* The machine m = [scenes, stage, currentScene, call, log] threaded       *)
(* through the statements of one segment.                                  *)
(***************************************************************************)
Machine ==
    [scenes |-> scenes, stage |-> stage, currentScene |-> currentScene,
     call |-> call, log |-> <<>>]

Emit(m, e) == [m EXCEPT !.log = Append(@, e)]

Without(s, id) == SelectSeq(s, LAMBDA c : c # id)

\* Container.addChild: a child already present moves to the top
AddChild(m, id) ==
    Emit([m EXCEPT !.stage = Append(Without(@, id), id)], Ev("addChild", id, 0, 0))

RemoveChild(m, id) ==
    Emit([m EXCEPT !.stage = Without(@, id)], Ev("removeChild", id, 0, 0))

Clamp(p) == IF p < 0 THEN 0 ELSE IF p > 100 THEN 100 ELSE p

\* LoadingScene.setProgress
SetProgress(m, id, p) ==
    Emit([m EXCEPT !.scenes[id].progress = Clamp(p)], Ev("setProgress", id, p, 0))

\* new X(): the object is appended to scenes
Construct(m, kind) == [m EXCEPT !.scenes = Append(@, NewSceneRec(kind))]

\* <Scene>.cleanup(): SeedsScene clears its restart timer, MagicWordsScene
\* destroys itself
SceneCleanup(m, id) ==
    Emit([m EXCEPT !.scenes[id].cleanups = @ + 1,
                   !.scenes[id].restartTimer = FALSE,
                   !.scenes[id].destroyed = @ \/ m.scenes[id].kind = "Magic"],
         Ev("cleanup", id, 0, 0))

\* Container.destroy({children: true}): the listeners of its buttons go with it
Destroy(m, id) ==
    Emit([m EXCEPT !.scenes[id].destroyed = TRUE, !.scenes[id].hasBack = FALSE],
         Ev("destroy", id, 0, 0))

\* mutant: `bundleId !== undefined` instead of `!!bundleId`
ShowLoadingScreen_DefinedOnly(bundleId) == bundleId # NoBundle

\* changeScene: const showLoadingScreen = !!bundleId
ShowLoadingScreen(bundleId) == bundleId \notin {NoBundle, ""}

\* changeScene step 1
ShowLoading(m) ==
    IF m.call.show
    THEN AddChild(SetProgress(m, loadingScene, 0), loadingScene)
    ELSE m

\* mutant: step 2 without `this.currentScene = undefined`
CleanupCurrent_KeepsReference(m) ==
    IF m.currentScene # UNDEF
    THEN Destroy(SceneCleanup(RemoveChild(m, m.currentScene), m.currentScene),
                 m.currentScene)
    ELSE m

\* changeScene step 2
CleanupCurrent(m) ==
    IF m.currentScene # UNDEF
    THEN LET c  == m.currentScene
             m1 == RemoveChild(m, c)
             m2 == SceneCleanup(m1, c)
             m3 == Destroy(m2, c)
         IN [m3 EXCEPT !.currentScene = UNDEF]
    ELSE m

\* currentScene.resize(DESIGN_W, DESIGN_H)
ResizeScene(m, id) ==
    LET m1 == Emit(m, Ev("resize", id, DESIGN_W, DESIGN_H))
    IN IF id = m1.call.newScene /\ m1.call.pc # "done"
       THEN [m1 EXCEPT !.call.resizes = @ + 1]
       ELSE m1

\* mutant: step 6 without the resize of the new scene
Swap_NoResize(m) ==
    LET n  == m.call.newScene
        m1 == IF m.call.show THEN RemoveChild(m, loadingScene) ELSE m
        m3 == AddChild([m1 EXCEPT !.currentScene = n], n)
    IN [m3 EXCEPT !.call.pc = "done", !.call.promise = "resolved"]

\* changeScene step 6 and the return
Swap(m) ==
    LET n  == m.call.newScene
        m1 == IF m.call.show THEN RemoveChild(m, loadingScene) ELSE m
        m2 == [m1 EXCEPT !.currentScene = n]
        m3 == AddChild(m2, n)
        m4 == ResizeScene(m3, n)
    IN [m4 EXCEPT !.call.pc = "done", !.call.promise = "resolved"]

\* changeScene steps 4 and 5, up to `await newScene.init()`
CreateNewScene(m) ==
    LET m1 == IF m.call.isFn
              THEN Emit(Construct(m, m.call.kind),
                        Ev("factory", Len(m.scenes) + 1, 0, 0))
              ELSE m
        n  == IF m.call.isFn THEN Len(m1.scenes) ELSE m.call.arg
        m2 == [m1 EXCEPT !.call.newScene = n, !.call.createdAt = now]
    IN IF HasInit(m2.scenes[n].kind)
       THEN [Emit(m2, Ev("init", n, 0, 0)) EXCEPT !.call.pc = "initing"]
       ELSE Swap(m2)

\* mutant: the comparison turned around
MinWaitNeeded_Reversed(elapsed) == elapsed > MIN_LOADING_TIME

\* elapsed < this.MIN_LOADING_TIME
MinWaitNeeded(elapsed) == elapsed < MIN_LOADING_TIME

\* changeScene from its first statement to its first await (or its return)
ChangeScene(m, isFn, kind, arg, bundleId) ==
    LET c  == [IdleCall EXCEPT !.pc = "start", !.bundleId = bundleId,
                                !.show = ShowLoadingScreen(bundleId),
                                !.startTime = now, !.isFn = isFn, !.kind = kind,
                                !.arg = arg, !.old = m.currentScene,
                                !.promise = "pending"]
        m0 == Emit([m EXCEPT !.call = c], Ev("changeScene", arg, 0, 0))
        m1 == ShowLoading(m0)
        m2 == CleanupCurrent(m1)
    IN IF bundleId \notin {NoBundle, ""}
       THEN [Emit(m2, Ev("loadBundle", UNDEF, 0, 0)) EXCEPT !.call.pc = "loading"]
       ELSE CreateNewScene(m2)

Commit(m) ==
    /\ scenes' = m.scenes
    /\ stage' = m.stage
    /\ currentScene' = m.currentScene
    /\ call' = m.call
    /\ log' = m.log

(***************************************************************************)
(* Main: the boot sequence.                                                *)
(***************************************************************************)
\* Main.init from SceneManager.init(this.app) on
MainInit ==
    /\ bootPc = "new"
    /\ LET m1 == Construct(Machine, "Loading")        \* SceneManager.init
           ls == Len(m1.scenes)
           \* SceneManager.resize(): no current scene yet
           m2 == Emit(Emit(m1, Ev("SceneManager.resize", UNDEF, 0, 0)),
                      Ev("resize", ls, DESIGN_W, DESIGN_H))
           m3 == Construct(m2, "Loading")             \* const loadingScene = new LoadingScene()
           m4 == ChangeScene(m3, FALSE, "", Len(m3.scenes), NoBundle)
       IN /\ loadingScene' = ls
          /\ Commit(m4)
    /\ bootPc' = "interval"
    /\ UNCHANGED <<cache, now>>
    /\ UNCHANGED nonSM

\* the setInterval callback: progress grows, and at 1 the timeout is set
BootInterval ==
    /\ bootPc = "interval"
    /\ \E p \in {50, 100} :
          LET b == loadingScene + 1          \* the boot LoadingScene
              q == scenes[b].progress + p
          IN /\ Commit(SetProgress(Machine, b, q))
             /\ bootPc' = IF q >= 100 THEN "timeout" ELSE "interval"
    /\ UNCHANGED <<loadingScene, cache, now>>
    /\ UNCHANGED nonSM

\* the setTimeout callback: SceneManager.changeScene(new MenuScene())
BootTimeout ==
    /\ bootPc = "timeout"
    /\ Len(scenes) < MaxScenes
    /\ LET m1 == Construct(Machine, "Menu")
       IN Commit(ChangeScene(m1, FALSE, "", Len(m1.scenes), NoBundle))
    /\ bootPc' = "done"
    /\ UNCHANGED <<loadingScene, cache, now>>
    /\ UNCHANGED nonSM

(***************************************************************************)
(* The pointer handlers and timers that call changeScene.  A handler can   *)
(* run only while its scene is on the stage.                               *)
(***************************************************************************)
OnStage(id) == \E i \in 1..Len(stage) : stage[i] = id

\* MenuScene: container.on('pointerdown', onClick)
MenuButton ==
    /\ Len(scenes) < MaxScenes
    /\ \E id \in 1..Len(scenes) :
          /\ OnStage(id) /\ scenes[id].kind = "Menu" /\ ~scenes[id].destroyed
          /\ \E b \in MenuButtons :
                Commit(ChangeScene(Machine, TRUE, b.scene, UNDEF, b.bundle))
    /\ UNCHANGED <<loadingScene, cache, now, bootPc>>
    /\ UNCHANGED nonSM

\* createBackButton: onClick: () => SceneManager.changeScene(new MenuScene())
BackButton ==
    /\ Len(scenes) < MaxScenes
    /\ \E id \in 1..Len(scenes) :
          /\ OnStage(id) /\ scenes[id].hasBack
          /\ LET m1 == Construct(Machine, "Menu")
             IN Commit(ChangeScene(m1, FALSE, "", Len(m1.scenes), NoBundle))
    /\ UNCHANGED <<loadingScene, cache, now, bootPc>>
    /\ UNCHANGED nonSM

\* SeedsScene._restartTimeout fires: changeScene(() => new SeedsScene())
SeedsRestart ==
    /\ Len(scenes) < MaxScenes
    /\ \E id \in 1..Len(scenes) :
          /\ scenes[id].restartTimer
          /\ LET m1 == [Machine EXCEPT !.scenes[id].restartTimer = FALSE]
             IN Commit(ChangeScene(m1, TRUE, "Seeds", UNDEF, NoBundle))
    /\ UNCHANGED <<loadingScene, cache, now, bootPc>>
    /\ UNCHANGED nonSM

(***************************************************************************)
(* The continuations of changeScene.                                       *)
(***************************************************************************)
\* the progress callback handed to Assets.loadBundle
LoadProgress ==
    /\ call.pc = "loading"
    /\ \E p \in ProgressValues : Commit(SetProgress(Machine, loadingScene, p))
    /\ UNCHANGED <<loadingScene, cache, now, bootPc>>
    /\ UNCHANGED nonSM

\* after `await Assets.loadBundle`: the catch, setProgress(1), the minimum display time
AfterLoad(m, ok) ==
    LET m1 == SetProgress([m EXCEPT !.call.loadFailed = ~ok, !.call.settledAt = now],
                          loadingScene, 100)
        elapsed == now - m1.call.startTime
    IN IF MinWaitNeeded(elapsed)
       THEN [m1 EXCEPT !.call.pc = "waiting", !.call.waited = TRUE,
                       !.call.deadline = now + (MIN_LOADING_TIME - elapsed)]
       ELSE CreateNewScene(m1)

\* Assets.loadBundle settles; a bundle already in the cache resolves
LoadSettle ==
    /\ call.pc = "loading"
    /\ \E ok \in BOOLEAN :
          /\ (call.bundleId \in cache) => ok
          /\ cache' = IF ok THEN cache \cup {call.bundleId} ELSE cache
          /\ Commit(AfterLoad(Machine, ok))
    /\ UNCHANGED <<loadingScene, now, bootPc>>
    /\ UNCHANGED nonSM

\* the setTimeout of the minimum display time fires
MinWaitDone ==
    /\ call.pc = "waiting"
    /\ now >= call.deadline
    /\ Commit(CreateNewScene(Machine))
    /\ UNCHANGED <<loadingScene, cache, now, bootPc>>
    /\ UNCHANGED nonSM

\* whether <Scene>.init() fulfils: AceOfShadowsScene.init reads sheet.textures of
\* Assets.get("cards"), which is undefined when the bundle did not load; the
\* other two catch what they throw
InitFulfils(kind) == kind = "Ace" => "ace-of-shadows" \in cache

\* after `await newScene.init()`
AfterInit(m, backAdded) ==
    LET n == m.call.newScene
    IN IF InitFulfils(m.scenes[n].kind)
       THEN Swap([m EXCEPT !.scenes[n].hasBack = @ \/ backAdded])
       ELSE [m EXCEPT !.call.pc = "done", !.call.promise = "rejected"]

\* newScene.init() settles; MagicWordsScene adds its back button in init, unless
\* its fetch failed
InitSettle ==
    /\ call.pc = "initing"
    /\ \E backAdded \in BOOLEAN :
          /\ backAdded => scenes[call.newScene].kind = "Magic"
          /\ Commit(AfterInit(Machine, backAdded))
    /\ UNCHANGED <<loadingScene, cache, now, bootPc>>
    /\ UNCHANGED nonSM

(***************************************************************************)
(* The ticker, resize and the clock.                                       *)
(***************************************************************************)
\* SceneManager.resize
SMResize(m) ==
    LET m0 == Emit(m, Ev("SceneManager.resize", UNDEF, 0, 0))
        m1 == IF m0.currentScene # UNDEF THEN ResizeScene(m0, m0.currentScene) ELSE m0
    IN IF loadingScene # UNDEF THEN ResizeScene(m1, loadingScene) ELSE m1

Resize ==
    /\ bootPc # "new"
    /\ Commit(SMResize(Machine))
    /\ UNCHANGED <<loadingScene, cache, now, bootPc>>
    /\ UNCHANGED nonSM

\* SceneManager.update; SeedsScene.update may find the water full and set its
\* restart timer
SMUpdate(m, full) ==
    LET m0 == Emit(m, Ev("SceneManager.update", UNDEF, 0, 0))
        c  == m0.currentScene
        m1 == IF c # UNDEF
              THEN LET u == Emit(m0, Ev("update", c, 0, 0))
                   IN IF full /\ u.scenes[c].kind = "Seeds" /\ ~u.scenes[c].isRestarting
                      THEN [u EXCEPT !.scenes[c].isRestarting = TRUE,
                                     !.scenes[c].restartTimer = TRUE]
                      ELSE u
              ELSE m0
    IN IF loadingScene # UNDEF THEN Emit(m1, Ev("update", loadingScene, 0, 0)) ELSE m1

TickerUpdate ==
    /\ bootPc # "new"
    /\ \E full \in BOOLEAN : Commit(SMUpdate(Machine, full))
    /\ UNCHANGED <<loadingScene, cache, now, bootPc>>
    /\ UNCHANGED nonSM

Tick ==
    /\ \E d \in TickSteps :
          /\ now + d <= MaxNow
          /\ now' = now + d
    /\ UNCHANGED <<scenes, stage, currentScene, loadingScene, call, cache, bootPc, log>>
    /\ UNCHANGED nonSM

\* Main constructed, init() not yet run
SMAtRest ==
    /\ scenes = <<>>
    /\ stage = <<>>
    /\ currentScene = UNDEF
    /\ loadingScene = UNDEF
    /\ call = IdleCall
    /\ cache = {}
    /\ now = 0
    /\ bootPc = "new"

\* no MixedText constructed
MTAtRest ==
    /\ opts = [text |-> <<>>, maxWidth |-> 0, placeholderTexture |-> ""]
    /\ texCache = {}
    /\ objs = <<>>
    /\ elements = <<>>
    /\ textPool = <<>>
    /\ spritePool = <<>>
    /\ originalScales = <<>>
    /\ typewriteTimeline = [state |-> "null", pos |-> 0, targets |-> <<>>, cb |-> 0]
    /\ isTyping = FALSE
    /\ mtDestroyed = FALSE
    /\ lastOp = ""
    /\ mtCalls = 0
    /\ stopSnap = [ran |-> FALSE, timeline |-> "null", isTyping |-> FALSE, els |-> <<>>]
    /\ cbCalls = <<>>

\* positions are in tenths of a pixel: offsetX = 0.3 and offsetY = 1.5
OffsetX == 3
OffsetY == 15

\* calculatePositions
CalculatePositions ==
    LET centerX == (DESIGN_W * 10) \div 2
        centerY == (DESIGN_H * 10) \div 2 + 500
    IN [start |-> <<centerX - 1500, centerY>>, end |-> <<centerX + 1500, centerY>>]

NoTimer == [active |-> FALSE, due |-> 0]

NoFire == [at |-> 0, prev |-> 0, top |-> 0]

\* new AceOfShadowsScene(): the fields' initial values, then calculatePositions
AceAtRest ==
    /\ acePc = "constructed"
    /\ startPos = CalculatePositions.start
    /\ endPos = CalculatePositions.end
    /\ stack1 = <<>>
    /\ stack2 = <<>>
    /\ cardChildren = <<>>
    /\ cardTarget = <<>>
    /\ isRunning = FALSE
    /\ aceTimer = NoTimer
    /\ aceNow = 0
    /\ aceFired = 0
    /\ lastFire = NoFire

\* no SeedsScene constructed
SeedsAtRest ==
    /\ seeds = <<>>
    /\ seedPool = <<>>
    /\ seedsMade = 0
    /\ trails = <<>>
    /\ activeTrails = <<>>
    /\ trailPool = <<>>
    /\ magnet = [active |-> FALSE, x |-> 0, y |-> 0, timeout |-> FALSE]
    /\ spawnInterval = FALSE
    /\ seedsRestarting = FALSE
    /\ restartTimeout = FALSE
    /\ seedTime = 0
    /\ sfxPlays = 0
    /\ seedUpdates = 0
    /\ seedSpawns = 0
    /\ seedsPc = "none"

\* a Howl that was never created
NoHowl == [state |-> "none", playing |-> FALSE, volume |-> 0,
           fade |-> [active |-> FALSE, to |-> 0, endsAt |-> 0], onceFade |-> FALSE]

NoTimes == [left |-> -1, stopped |-> -1, fadeDone |-> -1, unloaded |-> -1]

\* the SoundManager singleton after module load, no PhoenixFlameScene constructed
SoundAtRest ==
    /\ sndSounds = {}
    /\ howl = NoHowl
    /\ sndMuted = FALSE
    /\ howlerMute = [calls |-> 0, value |-> FALSE]
    /\ btnMuted = FALSE
    /\ muteHist = <<>>
    /\ muteCalls = 0
    /\ phxPc = "none"
    /\ sndNow = 0
    /\ phxTimes = NoTimes

NoTimers == [interval |-> FALSE, intervalLive |-> FALSE,
             timeout |-> FALSE, timeoutLive |-> FALSE]

NoStyle == [set |-> FALSE, width |-> 0, height |-> 0, left |-> 0, top |-> 0]

\* new Main(), init() not yet called
MainAtRest ==
    /\ mainPc = "new"
    /\ mainTimers = NoTimers
    /\ mainProgress = 0
    /\ fpsTicker = [field |-> FALSE, added |-> FALSE, elapsed |-> 0]
    /\ listeners = {}
    /\ browser = [visualViewport |-> FALSE, fullscreen |-> FALSE]
    /\ viewport = [w |-> DESIGN_W, h |-> DESIGN_H, offsetLeft |-> 0, offsetTop |-> 0]
    /\ canvasStyle = NoStyle
    /\ mainDestroyed = FALSE
    /\ mainLate = {}

NoTap == [kind |-> "none", wasTyping |-> FALSE, revealed |-> FALSE, from |-> 0, to |-> 0,
          stillTyping |-> FALSE]

\* no MagicWordsScene constructed
MagicAtRest ==
    /\ magicPc = "none"
    /\ dialogueData = <<>>
    /\ currentIndex = 0
    /\ mixedTexts = <<>>
    /\ currentMixedText = 0
    /\ rafQueue = <<>>
    /\ taps = 0
    /\ lastTap = NoTap

InitSM ==
    /\ SMAtRest
    /\ MTAtRest
    /\ AceAtRest
    /\ SeedsAtRest
    /\ SoundAtRest
    /\ MainAtRest
    /\ MagicAtRest
    /\ log = <<>>

NextSM ==
    \/ MainInit
    \/ BootInterval
    \/ BootTimeout
    \/ MenuButton
    \/ BackButton
    \/ SeedsRestart
    \/ LoadProgress
    \/ LoadSettle
    \/ MinWaitDone
    \/ InitSettle
    \/ Resize
    \/ TickerUpdate
    \/ Tick

SpecSM == InitSM /\ [][NextSM]_vars

(***************************************************************************)
(* MixedText.  Lengths are in thousandths of a pixel and scales in         *)
(* thousandths (One is the scale 1), so that the sprite scale              *)
(* lineHeight * 0.9 / texture.height stays an integer.                     *)
(***************************************************************************)
One == 1000
\* maxWidth = Infinity, the default
Infinity == 1000000000
\* gap = 6 and lineGap = 10, the defaults (pixels)
GAP == 6
LINE_GAP == 10
\* getLineHeight(): the measured height of 'Mg' in the style (pixels)
LineHeight == 20
\* Text.width at scale 1: the advance of one character of the style (pixels)
CharW == 10

\* the characters texts are made of: a letter, the two kinds of white space, the braces
Alphabet == {"a", " ", "\n", "{", "}"}

RECURSIVE StringsOfLen(_)
StringsOfLen(n) ==
    IF n = 0 THEN {<<>>}
    ELSE {Append(s, c) : s \in StringsOfLen(n - 1), c \in Alphabet}

\* the texts an instance is constructed with, and the texts setText is given
Texts == UNION {StringsOfLen(n) : n \in 0..MaxLen}
SetTexts == UNION {StringsOfLen(n) : n \in 0..MaxSetLen}

\* the values of opts.maxWidth
MaxWidths == {Infinity, 26 * One}

\* \s of a regular expression
IsSpace(c) == c \in {" ", "\n"}

\* the textures: the one Assets.cache holds under the alias emoji_a, and the placeholder
NoTex == ""
TexW(tex) == IF tex = "emoji_a" THEN 36 ELSE 20
TexH(tex) == IF tex = "emoji_a" THEN 36 ELSE 12

\* opts.images: token name -> alias ("" for a name it does not hold)
Images(key) == IF key = <<"a">> THEN "emoji_a" ELSE ""

Min(S) == CHOOSE i \in S : \A j \in S : i <= j

NewObj(kind, content, tex) ==
    [ kind      |-> kind,       \* "Text" or "Sprite"
      content   |-> content,    \* Text.text
      tex       |-> tex,        \* Sprite.texture
      alpha     |-> 100,        \* percent
      sx        |-> One,        \* scale.x
      sy        |-> One,        \* scale.y
      x         |-> 0,
      y         |-> 0,
      parent    |-> FALSE,      \* it is a child of the MixedText container
      destroyed |-> FALSE,
      src       |-> <<>>,       \* the part or chunk of the text it was placed for
      at        |-> 0 ]         \* where that part starts in the text

Abs(n) == IF n < 0 THEN -n ELSE n

\* Text.width / Sprite.width: the local width times |scale.x|
Width(o) ==
    Abs(o.sx) * (IF o.kind = "Text" THEN Len(o.content) * CharW ELSE TexW(o.tex))

NoTimeline == [state |-> "null", pos |-> 0, targets |-> <<>>, cb |-> 0]

NoSnap == [ran |-> FALSE, timeline |-> "null", isTyping |-> FALSE, els |-> <<>>]

\* the state of the instance threaded through the statements of one method;
\* x, y and got are the locals of build
MTMachine ==
    [ opts |-> opts, objs |-> objs, elements |-> elements, textPool |-> textPool,
      spritePool |-> spritePool, originalScales |-> originalScales,
      typewriteTimeline |-> typewriteTimeline, isTyping |-> isTyping,
      mtDestroyed |-> mtDestroyed, stopSnap |-> NoSnap, log |-> <<>>,
      cbCalls |-> cbCalls,
      x |-> 0, y |-> 0, got |-> 0 ]

(***************************************************************************)
(* text.split(/({.*?})/g).filter(Boolean) and part.split(/(\s+)/g)         *)
(***************************************************************************)
\* where {.*?} started at i ends: at the first } after i, unless a line break
\* (which . does not match) comes first; 0 when it does not match at i
MatchEnd(t, i) ==
    LET S == {k \in (i + 1)..Len(t) : t[k] \in {"}", "\n"}}
    IN IF S # {} /\ t[Min(S)] = "}" THEN Min(S) ELSE 0

\* the leftmost match in t, as <<first, last>>, or <<0, 0>>
FirstMatch(t) ==
    LET S == {i \in 1..Len(t) : t[i] = "{" /\ MatchEnd(t, i) # 0}
    IN IF S = {} THEN <<0, 0>> ELSE <<Min(S), MatchEnd(t, Min(S))>>

Part(s, at) == [s |-> s, at |-> at]

\* the parts of t, which starts after `off` characters of the text
RECURSIVE SplitParts(_, _)
SplitParts(t, off) ==
    IF t = <<>> THEN <<>>
    ELSE LET m == FirstMatch(t)
         IN IF m[1] = 0 THEN <<Part(t, off + 1)>>
            ELSE (IF m[1] > 1 THEN <<Part(SubSeq(t, 1, m[1] - 1), off + 1)>> ELSE <<>>)
                 \o <<Part(SubSeq(t, m[1], m[2]), off + m[1])>>
                 \o SplitParts(SubSeq(t, m[2] + 1, Len(t)), off + m[2])

\* the runs of white space and of other characters of s
RECURSIVE SplitChunks(_, _)
SplitChunks(s, off) ==
    IF s = <<>> THEN <<>>
    ELSE LET brk == {k \in 2..Len(s) : IsSpace(s[k]) # IsSpace(s[1])}
             e   == IF brk = {} THEN Len(s) ELSE Min(brk) - 1
         IN <<Part(SubSeq(s, 1, e), off + 1)>>
            \o SplitChunks(SubSeq(s, e + 1, Len(s)), off + e)

\* part.startsWith('{') && part.endsWith('}')
IsToken(s) == s[1] = "{" /\ s[Len(s)] = "}"

\* chunk.trim().length === 0
IsBlank(s) == \A i \in 1..Len(s) : IsSpace(s[i])

(***************************************************************************)
(* The pools and build.                                                    *)
(***************************************************************************)
RECURSIVE ReturnEach(_, _)
ReturnEach(m, i) ==
    IF i > Len(m.elements) THEN m
    ELSE LET id == m.elements[i]
             m1 == [m EXCEPT !.objs[id].parent = FALSE]
         IN ReturnEach(IF m1.objs[id].kind = "Text"
                       THEN [m1 EXCEPT !.textPool = Append(@, id)]
                       ELSE [m1 EXCEPT !.spritePool = Append(@, id)],
                       i + 1)

ReturnToPool(m) ==
    [Emit(ReturnEach(m, 1), Ev("returnToPool", 0, Len(m.elements), 0))
        EXCEPT !.elements = <<>>]

\* mutant: never reuses a pooled Text
GetTextFromPool_AlwaysNew(m, content) ==
    [Emit(m, Ev("new", Len(m.objs) + 1, Len(m.textPool), 0))
        EXCEPT !.objs = Append(@, NewObj("Text", content, NoTex)),
               !.got = Len(m.objs) + 1]

GetTextFromPool(m, content) ==
    IF m.textPool # <<>>
    THEN LET id == m.textPool[Len(m.textPool)]
         IN [Emit(m, Ev("reuse", id, Len(m.textPool), 0))
                EXCEPT !.textPool = SubSeq(@, 1, Len(@) - 1),
                       !.objs[id].content = content,
                       !.objs[id].alpha = 100,
                       !.objs[id].sx = One,
                       !.objs[id].sy = One,
                       !.got = id]
    ELSE [Emit(m, Ev("new", Len(m.objs) + 1, Len(m.textPool), 0))
             EXCEPT !.objs = Append(@, NewObj("Text", content, NoTex)),
                    !.got = Len(m.objs) + 1]

GetSpriteFromPool(m, tex) ==
    IF m.spritePool # <<>>
    THEN LET id == m.spritePool[Len(m.spritePool)]
         IN [Emit(m, Ev("reuse", id, Len(m.spritePool), 0))
                EXCEPT !.spritePool = SubSeq(@, 1, Len(@) - 1),
                       !.objs[id].tex = tex,
                       !.objs[id].alpha = 100,
                       !.objs[id].sx = One,
                       !.objs[id].sy = One,
                       !.got = id]
    ELSE [Emit(m, Ev("new", Len(m.objs) + 1, Len(m.spritePool), 0))
             EXCEPT !.objs = Append(@, NewObj("Sprite", <<>>, tex)),
                    !.got = Len(m.objs) + 1]

Newline(m) == [m EXCEPT !.x = 0, !.y = @ + (LineHeight + LINE_GAP) * One]

\* mutant: also wraps an element that starts a line
Overflows_AlsoAtLineStart(m, id) == m.x + Width(m.objs[id]) > m.opts.maxWidth

\* x > 0 && x + node.width > maxWidth
Overflows(m, id) == m.x > 0 /\ m.x + Width(m.objs[id]) > m.opts.maxWidth

PlaceNode(m, id, part) ==
    LET m1 == IF Overflows(m, id) THEN Newline(m) ELSE m
        o  == [m1.objs[id] EXCEPT !.x = m1.x,
                                  !.y = m1.y + (LineHeight * One) \div 2,
                                  !.parent = TRUE,
                                  !.src = part.s,
                                  !.at = part.at]
    IN [m1 EXCEPT !.objs[id] = o,
                  !.elements = Append(@, id),
                  !.x = @ + Width(o) + GAP * One]

\* targetH / Math.max(1, sp.texture.height) with targetH = lineHeight * 0.9
SpriteScale(tex) ==
    (LineHeight * 9 * One) \div (10 * (IF TexH(tex) > 1 THEN TexH(tex) ELSE 1))

\* the texture of a token: the cached one, else the placeholder, else none
TokenTexture(m, key) ==
    LET alias == Images(key)
        tex   == IF alias # "" /\ alias \in texCache THEN alias ELSE NoTex
    IN IF tex # NoTex THEN tex ELSE m.opts.placeholderTexture

PlaceToken(m, part) ==
    LET finalTex == TokenTexture(m, SubSeq(part.s, 2, Len(part.s) - 1))
    IN IF finalTex # NoTex
       THEN LET m1 == GetSpriteFromPool(m, finalTex)
                m2 == [m1 EXCEPT !.objs[m1.got].sx = SpriteScale(finalTex),
                                 !.objs[m1.got].sy = SpriteScale(finalTex)]
            IN PlaceNode(m2, m1.got, part)
       ELSE LET m1 == GetTextFromPool(m, part.s)
            IN PlaceNode(m1, m1.got, part)

RECURSIVE PlaceChunks(_, _, _)
PlaceChunks(m, chunks, i) ==
    IF i > Len(chunks) THEN m
    ELSE LET c  == chunks[i]
             m1 == GetTextFromPool(m, c.s)
             id == m1.got
         IN IF Overflows(m1, id)
            THEN IF IsBlank(c.s)
                 THEN PlaceChunks([Emit(m1, Ev("unused", id, 0, 0))
                                      EXCEPT !.textPool = Append(@, id)],
                                  chunks, i + 1)
                 ELSE PlaceChunks(PlaceNode(Newline(m1), id, c), chunks, i + 1)
            ELSE PlaceChunks(PlaceNode(m1, id, c), chunks, i + 1)

RECURSIVE BuildParts(_, _, _)
BuildParts(m, parts, i) ==
    IF i > Len(parts) THEN m
    ELSE IF IsToken(parts[i].s)
         THEN BuildParts(PlaceToken(m, parts[i]), parts, i + 1)
         ELSE BuildParts(PlaceChunks(m, SplitChunks(parts[i].s, parts[i].at - 1), 1),
                         parts, i + 1)

Build(m) ==
    BuildParts([ReturnToPool(m) EXCEPT !.x = 0, !.y = 0],
               SplitParts(m.opts.text, 0), 1)

(***************************************************************************)
(* The typewriter.  The timeline reveals its targets one by one; a target  *)
(* is the object that was at that place of _elements when typewrite ran.   *)
(***************************************************************************)
ElementAt(m, id) == CHOOSE i \in 1..Len(m.elements) : m.elements[i] = id

IsElement(m, id) == \E i \in 1..Len(m.elements) : m.elements[i] = id

\* the loop of stopTypewrite over one element
Shown(m, id) ==
    LET i == ElementAt(m, id)
        o == [m.objs[id] EXCEPT !.alpha = 100]
    IN IF i <= Len(m.originalScales)
       THEN [o EXCEPT !.sx = m.originalScales[i].x, !.sy = m.originalScales[i].y]
       ELSE o

SnapOf(m) ==
    [ ran      |-> TRUE,
      timeline |-> m.typewriteTimeline.state,
      isTyping |-> m.isTyping,
      els      |-> [i \in 1..Len(m.elements) |-> m.objs[m.elements[i]]] ]

StopTypewrite(m) ==
    LET m1 == [m EXCEPT !.typewriteTimeline = NoTimeline,
                        !.isTyping = FALSE,
                        !.objs = [id \in 1..Len(m.objs) |->
                                     IF IsElement(m, id) THEN Shown(m, id)
                                     ELSE m.objs[id]]]
    IN [Emit(m1, Ev("stopTypewrite", 0, 0, 0)) EXCEPT !.stopSnap = SnapOf(m1)]

\* the onComplete passed to the k-th typewrite() is called
CallOnComplete(m, k) ==
    [Emit(m, Ev("onComplete", k, 0, 0)) EXCEPT !.cbCalls[k] = @ + 1]

Typewrite(m) ==
    LET m0 == StopTypewrite(m)
        k  == Len(m0.cbCalls) + 1
        m1 == [m0 EXCEPT !.cbCalls = Append(@, 0)]
        n  == Len(m1.elements)
        sc == [i \in 1..n |-> [x |-> m1.objs[m1.elements[i]].sx,
                               y |-> m1.objs[m1.elements[i]].sy]]
    IN IF n = 0 THEN CallOnComplete(m1, k)
       ELSE [m1 EXCEPT
               !.isTyping = TRUE,
               !.originalScales = sc,
               !.objs = [id \in 1..Len(m1.objs) |->
                            IF IsElement(m1, id)
                            THEN [m1.objs[id] EXCEPT !.alpha = 0, !.sy = 0]
                            ELSE m1.objs[id]],
               !.typewriteTimeline =
                   [state   |-> "playing",
                    pos     |-> 0,
                    targets |-> [i \in 1..n |-> [obj |-> m1.elements[i], sy |-> sc[i].y]],
                    cb      |-> k]]

\* mutant: onComplete leaves _isTyping set
OnTimelineComplete_KeepsTyping(m) ==
    [CallOnComplete(m, m.typewriteTimeline.cb) EXCEPT !.typewriteTimeline.state = "done"]

\* the timeline's onComplete
OnTimelineComplete(m) ==
    [CallOnComplete(m, m.typewriteTimeline.cb) EXCEPT !.isTyping = FALSE,
                                                      !.typewriteTimeline.state = "done"]

\* the two tweens of target k run to their ends
Reveal(m, k) ==
    LET t == m.typewriteTimeline.targets[k]
    IN [m EXCEPT !.objs[t.obj].alpha = 100, !.objs[t.obj].sy = t.sy,
                 !.typewriteTimeline.pos = k]

RECURSIVE RevealFrom(_, _)
RevealFrom(m, k) ==
    IF k > Len(m.typewriteTimeline.targets) THEN m
    ELSE RevealFrom(Reveal(m, k), k + 1)

\* the animation ticker advances a playing timeline by one target
AdvanceTimeline(m) ==
    LET m1 == Reveal(m, m.typewriteTimeline.pos + 1)
    IN IF m1.typewriteTimeline.pos = Len(m1.typewriteTimeline.targets)
       THEN OnTimelineComplete(m1)
       ELSE m1

\* mutant: progress(1) fires onComplete again on a timeline that has ended
CompleteTypewrite_FiresAgain(m) ==
    IF m.typewriteTimeline.state # "null"
    THEN OnTimelineComplete(RevealFrom(m, m.typewriteTimeline.pos + 1))
    ELSE m

\* completeTypewrite: timeline.progress(1)
CompleteTypewrite(m) ==
    IF m.typewriteTimeline.state = "playing"
    THEN OnTimelineComplete(RevealFrom(m, m.typewriteTimeline.pos + 1))
    ELSE m

\* destroy
DestroyAll(m) ==
    LET m1 == StopTypewrite(m)
        pooled(id) == \/ \E i \in 1..Len(m1.textPool) : m1.textPool[i] = id
                      \/ \E i \in 1..Len(m1.spritePool) : m1.spritePool[i] = id
    IN [m1 EXCEPT !.objs = [id \in 1..Len(m1.objs) |->
                               [m1.objs[id] EXCEPT !.destroyed = pooled(id),
                                                   !.parent = FALSE]],
                  !.textPool = <<>>, !.spritePool = <<>>, !.elements = <<>>,
                  !.mtDestroyed = TRUE]

CanCall == ~mtDestroyed /\ mtCalls < MaxCalls

CommitMT(m, op) ==
    /\ mtCalls' = IF op = "tick" THEN mtCalls ELSE mtCalls + 1
    /\ opts' = m.opts
    /\ objs' = m.objs
    /\ elements' = m.elements
    /\ textPool' = m.textPool
    /\ spritePool' = m.spritePool
    /\ originalScales' = m.originalScales
    /\ typewriteTimeline' = m.typewriteTimeline
    /\ isTyping' = m.isTyping
    /\ mtDestroyed' = m.mtDestroyed
    /\ stopSnap' = m.stopSnap
    /\ cbCalls' = m.cbCalls
    /\ log' = m.log
    /\ lastOp' = op
    /\ UNCHANGED texCache
    /\ UNCHANGED nonMT

\* setText
SetText ==
    /\ CanCall
    /\ \E t \in SetTexts :
          CommitMT(Build(StopTypewrite([MTMachine EXCEPT !.opts.text = t])), "setText")

\* setMaxWidth
SetMaxWidth ==
    /\ CanCall
    /\ \E w \in MaxWidths :
          CommitMT(Build([MTMachine EXCEPT !.opts.maxWidth = w]), "setMaxWidth")

\* typewrite
DoTypewrite ==
    /\ CanCall
    /\ CommitMT(Typewrite(MTMachine), "typewrite")

\* stopTypewrite
DoStopTypewrite ==
    /\ CanCall
    /\ CommitMT(StopTypewrite(MTMachine), "stopTypewrite")

\* completeTypewrite
DoCompleteTypewrite ==
    /\ CanCall
    /\ CommitMT(CompleteTypewrite(MTMachine), "completeTypewrite")

\* a frame of the animation ticker while the timeline plays
TimelineTick ==
    /\ typewriteTimeline.state = "playing"
    /\ CommitMT(AdvanceTimeline(MTMachine), "tick")

\* destroy
DoDestroy ==
    /\ CanCall
    /\ CommitMT(DestroyAll(MTMachine), "destroy")

\* new MixedText(opts): the fields' initial values, then build()
Constructed(o) ==
    Build([ opts |-> o, objs |-> <<>>, elements |-> <<>>, textPool |-> <<>>,
            spritePool |-> <<>>, originalScales |-> <<>>,
            typewriteTimeline |-> NoTimeline, isTyping |-> FALSE,
            mtDestroyed |-> FALSE, stopSnap |-> NoSnap, log |-> <<>>,
            cbCalls |-> <<>>,
            x |-> 0, y |-> 0, got |-> 0 ])

InitMT ==
    /\ SMAtRest
    /\ AceAtRest
    /\ SeedsAtRest
    /\ SoundAtRest
    /\ MainAtRest
    /\ MagicAtRest
    /\ texCache \in {{}, {"emoji_a"}}
    /\ \E t \in Texts, w \in MaxWidths, ph \in {NoTex, "placeholder"} :
          LET m == Constructed([text |-> t, maxWidth |-> w, placeholderTexture |-> ph])
          IN /\ opts = m.opts
             /\ objs = m.objs
             /\ elements = m.elements
             /\ textPool = m.textPool
             /\ spritePool = m.spritePool
             /\ originalScales = m.originalScales
             /\ typewriteTimeline = m.typewriteTimeline
             /\ isTyping = m.isTyping
             /\ mtDestroyed = m.mtDestroyed
             /\ stopSnap = m.stopSnap
             /\ cbCalls = m.cbCalls
             /\ log = m.log
             /\ lastOp = "constructor"
             /\ mtCalls = 0

NextMT ==
    \/ SetText
    \/ SetMaxWidth
    \/ DoTypewrite
    \/ DoStopTypewrite
    \/ DoCompleteTypewrite
    \/ TimelineTick
    \/ DoDestroy

SpecMT == InitMT /\ [][NextMT]_vars

(***************************************************************************)
(* Ace of Shadows.  The delayed call fires on the first animation frame at *)
(* or after the time it is due; restart(true) makes it due one delay after *)
(* that frame.                                                             *)
(***************************************************************************)
FrameSteps == {500, 1000}

\* init, with the cards sheet loaded
AceInit ==
    /\ acePc = "constructed"
    /\ acePc' = "running"
    /\ stack1' = [i \in 1..NUM_CARDS |-> i]
    /\ cardChildren' = [i \in 1..NUM_CARDS |-> i]
    /\ cardTarget' = [i \in 1..NUM_CARDS |->
                         <<startPos[1] + (i - 1) * OffsetX, startPos[2] - (i - 1) * OffsetY>>]
    /\ isRunning' = TRUE
    /\ aceTimer' = [active |-> TRUE, due |-> aceNow + CARD_MOVE_DELAY * 1000]
    /\ UNCHANGED <<startPos, endPos, stack2, aceNow, aceFired, lastFire>>
    /\ UNCHANGED nonAce

\* init, with Assets.get("cards") undefined: sheet.textures throws
AceInitThrows ==
    /\ acePc = "constructed"
    /\ acePc' = "failed"
    /\ UNCHANGED <<startPos, endPos, stack1, stack2, cardChildren, cardTarget, isRunning,
                   aceTimer, aceNow, aceFired, lastFire>>
    /\ UNCHANGED nonAce

\* mutant: takes the bottom card of stack1
MoveTopCard_FromBottom ==
    IF stack1 = <<>>
    THEN UNCHANGED <<stack1, stack2, cardChildren, cardTarget>>
    ELSE LET card == stack1[1]
             stack2Index == Len(stack2)
         IN /\ stack1' = SubSeq(stack1, 2, Len(stack1))
            /\ stack2' = Append(stack2, card)
            /\ cardChildren' = Append(Without(cardChildren, card), card)
            /\ cardTarget' = [cardTarget EXCEPT ![card] =
                                 <<endPos[1] + stack2Index * OffsetX,
                                   endPos[2] - stack2Index * OffsetY>>]

\* mutant: every card is sent to endPos itself
MoveTopCard_NoOffset ==
    IF stack1 = <<>>
    THEN UNCHANGED <<stack1, stack2, cardChildren, cardTarget>>
    ELSE LET card == stack1[Len(stack1)]
         IN /\ stack1' = SubSeq(stack1, 1, Len(stack1) - 1)
            /\ stack2' = Append(stack2, card)
            /\ cardChildren' = Append(Without(cardChildren, card), card)
            /\ cardTarget' = [cardTarget EXCEPT ![card] = endPos]

\* moveTopCard
MoveTopCard ==
    IF stack1 = <<>>
    THEN UNCHANGED <<stack1, stack2, cardChildren, cardTarget>>
    ELSE LET card == stack1[Len(stack1)]
             stack2Index == Len(stack2)
         IN /\ stack1' = SubSeq(stack1, 1, Len(stack1) - 1)
            /\ stack2' = Append(stack2, card)
            /\ cardChildren' = Append(Without(cardChildren, card), card)
            /\ cardTarget' = [cardTarget EXCEPT ![card] =
                                 <<endPos[1] + stack2Index * OffsetX,
                                   endPos[2] - stack2Index * OffsetY>>]

\* the callback of the delayed call
TimerFires ==
    /\ aceFired' = aceFired + 1
    /\ lastFire' = [at   |-> aceNow',
                    prev |-> lastFire.at,
                    top  |-> IF stack1 = <<>> THEN 0 ELSE stack1[Len(stack1)]]
    /\ IF ~isRunning
       THEN UNCHANGED <<stack1, stack2, cardChildren, cardTarget, aceTimer>>
       ELSE /\ MoveTopCard
            /\ aceTimer' = [active |-> TRUE, due |-> aceNow' + CARD_MOVE_DELAY * 1000]

\* an animation frame
AceFrame ==
    /\ acePc # "constructed"
    /\ aceTimer.active \/ aceNow < lastFire.at + MaxIdle
    /\ \E dt \in FrameSteps :
          /\ aceNow + dt <= MaxAceNow
          /\ aceNow' = aceNow + dt
    /\ IF aceTimer.active /\ aceNow' >= aceTimer.due
       THEN TimerFires
       ELSE UNCHANGED <<stack1, stack2, cardChildren, cardTarget, aceTimer, aceFired, lastFire>>
    /\ UNCHANGED <<acePc, startPos, endPos, isRunning>>
    /\ UNCHANGED nonAce

\* resize
AceResize ==
    /\ acePc # "cleaned"
    /\ startPos' = CalculatePositions.start
    /\ endPos' = CalculatePositions.end
    /\ UNCHANGED <<acePc, stack1, stack2, cardChildren, cardTarget, isRunning, aceTimer,
                   aceNow, aceFired, lastFire>>
    /\ UNCHANGED nonAce

\* cleanup
AceCleanup ==
    /\ acePc \in {"running", "failed"}
    /\ acePc' = "cleaned"
    /\ isRunning' = FALSE
    /\ aceTimer' = NoTimer
    /\ UNCHANGED <<startPos, endPos, stack1, stack2, cardChildren, cardTarget, aceNow,
                   aceFired, lastFire>>
    /\ UNCHANGED nonAce

InitAce ==
    /\ SMAtRest
    /\ MTAtRest
    /\ log = <<>>
    /\ AceAtRest
    /\ SeedsAtRest
    /\ SoundAtRest
    /\ MainAtRest
    /\ MagicAtRest

NextAce ==
    \/ AceInit
    \/ AceInitThrows
    \/ AceFrame
    \/ AceResize
    \/ AceCleanup

SpecAce == InitAce /\ [][NextAce]_vars

(***************************************************************************)
(* Seeds.  Lengths are in twentieths of a pixel, so that the magnet's pull *)
(* of 0.05 of the distance is a whole number for whole-pixel distances (it *)
(* is cut to a whole number otherwise).  Math.random is a stream of which  *)
(* one update draws the value (r + id) for the seed with that id.          *)
(***************************************************************************)
SPx(n) == n * 20

WATER_LEVEL == SPx(DESIGN_H) \div 2

GROUND_LEVEL == SPx(DESIGN_H - 20)

Sq(n) == n * n

\* dx * 0.05
Pull(d) == IF d >= 0 THEN d \div 20 ELSE -((-d) \div 20)

Rnd(r, id, n) == (r + id) % n

\* Math.cos(angle) * 15, Math.sin(angle) * 15 for the angles 0, 90, 180, 270 degrees
ExplodeV(k) ==
    IF k = 0 THEN <<SPx(15), 0>>
    ELSE IF k = 1 THEN <<0, SPx(15)>>
    ELSE IF k = 2 THEN <<-SPx(15), 0>>
    ELSE <<0, -SPx(15)>>

\* 100 + Math.random() * 200
FloatTime(k) == 100 + 50 * k

\* Math.sin(this.time + s.x * 0.1) * 5
Bob(k) == IF k = 1 THEN SPx(5) ELSE IF k = 3 THEN -SPx(5) ELSE 0

Attractable(state) == state \in {"FLOATING", "SINKING", "STACKED"}

Dist2(s, mg) == Sq(mg.x - s.x) + Sq(mg.y - s.y)

\* the magnet block of update for one seed
Attract(s, mg) ==
    IF mg.active /\ Attractable(s.state) /\ Dist2(s, mg) < Sq(SPx(250))
    THEN [s EXCEPT !.x = @ + Pull(mg.x - s.x),
                   !.y = @ + Pull(mg.y - s.y),
                   !.state = "SINKING"]
    ELSE s

\* mutant: gathers within 250 px
Gathers_WholeRange(s, mg) ==
    mg.active /\ Attractable(s.state) /\ Dist2(s, mg) < Sq(SPx(250))

\* the seed is pushed on gatheredSeeds
Gathers(s, mg) ==
    mg.active /\ Attractable(s.state) /\ Dist2(s, mg) < Sq(SPx(30))

Fall(s, r) ==
    LET y1 == s.y + s.vy
    IN IF y1 > WATER_LEVEL
       THEN [s EXCEPT !.y = y1, !.state = "FLOATING", !.vy = 0,
                      !.floatTimer = FloatTime(Rnd(r, s.id, 4)), !.layer = "water"]
       ELSE [s EXCEPT !.y = y1]

Float(s, r, delta) ==
    LET s1 == [s EXCEPT !.y = WATER_LEVEL + Bob(Rnd(r, s.id, 4)), !.floatTimer = @ - delta]
    IN IF s1.floatTimer <= 0 THEN [s1 EXCEPT !.state = "SINKING", !.vy = SPx(1)] ELSE s1

Sink(s, ss) ==
    LET y1 == s.y + s.vy
        s1 == IF y1 > GROUND_LEVEL
              THEN [s EXCEPT !.y = GROUND_LEVEL, !.state = "STACKED"]
              ELSE [s EXCEPT !.y = y1]
        C  == {k \in 1..Len(ss) :
                  /\ ss[k].id # s.id
                  /\ ss[k].state = "STACKED"
                  /\ Abs(s1.x - ss[k].x) < SPx(15)
                  /\ Abs(s1.y - ss[k].y) < SPx(20)}
    IN IF C = {} THEN s1
       ELSE [s1 EXCEPT !.y = ss[Min(C)].y - SPx(18), !.state = "STACKED"]

\* one pass of the first loop of update
StepSeed(s, ss, mg, r, delta) ==
    IF s.state = "EXPLODED"
    THEN [s EXCEPT !.x = @ + s.vx, !.y = @ + s.vy]
    ELSE LET s1 == Attract(s, mg)
         IN IF s1.state = "FALLING" THEN Fall(s1, r)
            ELSE IF s1.state = "FLOATING" THEN Float(s1, r, delta)
            ELSE IF s1.state = "SINKING" THEN Sink(s1, ss)
            ELSE s1

\* the first loop of update: the seeds after it and gatheredSeeds
RECURSIVE StepSeeds(_, _, _, _, _, _)
StepSeeds(ss, gathered, i, mg, r, delta) ==
    IF i > Len(ss) THEN [seeds |-> ss, gathered |-> gathered]
    ELSE StepSeeds([ss EXCEPT ![i] = StepSeed(ss[i], ss, mg, r, delta)],
                   IF ss[i].state # "EXPLODED" /\ Gathers(ss[i], mg)
                   THEN Append(gathered, ss[i].id) ELSE gathered,
                   i + 1, mg, r, delta)

SeedsMachine ==
    [ seeds |-> seeds, seedPool |-> seedPool, trails |-> trails,
      activeTrails |-> activeTrails, trailPool |-> trailPool, magnet |-> magnet,
      spawnInterval |-> spawnInterval, seedsRestarting |-> seedsRestarting,
      restartTimeout |-> restartTimeout, sfxPlays |-> sfxPlays, got |-> 0 ]

IdxOf(ss, id) == CHOOSE k \in 1..Len(ss) : ss[k].id = id

\* getTrail
GetTrail(st, id) ==
    IF st.trailPool # <<>>
    THEN LET t == st.trailPool[Len(st.trailPool)]
         IN [st EXCEPT !.trailPool = SubSeq(@, 1, Len(@) - 1),
                       !.trails[t] = [target |-> id, inWater |-> TRUE],
                       !.got = t]
    ELSE [st EXCEPT !.trails = Append(@, [target |-> id, inWater |-> TRUE]),
                    !.got = Len(st.trails) + 1]

\* releaseTrail
ReleaseTrail(st, t) ==
    [st EXCEPT !.trails[t].inWater = FALSE, !.trailPool = Append(@, t)]

\* the body of the two explosion loops for the seed at index k; the loop of the
\* restart keeps a trail the seed has (keep), the loop of the explosion does not
ExplodeSeed(st, k, r, keep) ==
    LET s    == st.seeds[k]
        v    == ExplodeV(Rnd(r, s.id, 4))
        kept == keep /\ s.trail # 0
        st1  == IF kept THEN st ELSE GetTrail(st, s.id)
        t    == IF kept THEN s.trail ELSE st1.got
    IN [st1 EXCEPT !.seeds[k] = [s EXCEPT !.state = "EXPLODED", !.vx = v[1], !.vy = v[2],
                                          !.trail = t, !.tint = "white"],
                   !.activeTrails = IF kept THEN @ ELSE Append(@, t)]

RECURSIVE ExplodeGathered(_, _, _, _)
ExplodeGathered(st, gathered, j, r) ==
    IF j > Len(gathered) THEN st
    ELSE ExplodeGathered(ExplodeSeed(st, IdxOf(st.seeds, gathered[j]), r, FALSE),
                         gathered, j + 1, r)

\* if (gatheredCount >= 10) { ... }
Explosion(st, gathered, r) ==
    IF Len(gathered) >= 10
    THEN [ExplodeGathered([st EXCEPT !.sfxPlays = @ + 1], gathered, 1, r)
             EXCEPT !.magnet.active = FALSE]
    ELSE st

OutOfArea(s) ==
    s.y > SPx(DESIGN_H + 200) \/ s.x < -SPx(200) \/ s.x > SPx(DESIGN_W + 200)

\* releaseSeed, for a seed already taken out of seeds
ReleaseSeed(st, s) ==
    LET st1 == IF s.trail # 0 THEN ReleaseTrail(st, s.trail) ELSE st
    IN [st1 EXCEPT !.seedPool =
           Append(@, [s EXCEPT !.layer = "none", !.trail = 0, !.vx = 0, !.vy = 0,
                               !.state = "FALLING"])]

\* the recycling loop, from the last seed down
RECURSIVE Recycle(_, _)
Recycle(st, i) ==
    IF i < 1 THEN st
    ELSE IF OutOfArea(st.seeds[i])
         THEN Recycle(ReleaseSeed([st EXCEPT !.seeds = SubSeq(@, 1, i - 1)
                                                       \o SubSeq(@, i + 1, Len(@))],
                                  st.seeds[i]),
                      i - 1)
         ELSE Recycle(st, i - 1)

StackedCount(ss) == Cardinality({k \in 1..Len(ss) : ss[k].state = "STACKED"})

RECURSIVE ExplodeRest(_, _, _)
ExplodeRest(st, k, r) ==
    IF k > Len(st.seeds) THEN st
    ELSE IF st.seeds[k].state = "EXPLODED" THEN ExplodeRest(st, k + 1, r)
    ELSE ExplodeRest(ExplodeSeed(st, k, r, TRUE), k + 1, r)

\* the restart when the water is full
FullRestart(st, r) ==
    IF StackedCount(st.seeds) >= FULL_STACK_THRESHOLD /\ ~st.seedsRestarting
    THEN [ExplodeRest([st EXCEPT !.seedsRestarting = TRUE,
                                 !.magnet.active = FALSE,
                                 !.spawnInterval = FALSE,
                                 !.sfxPlays = @ + 1], 1, r)
             EXCEPT !.restartTimeout = TRUE]
    ELSE st

\* update(delta)
Update(st, r, delta) ==
    LET res == StepSeeds(st.seeds, <<>>, 1, st.magnet, r, delta)
        st1 == Explosion([st EXCEPT !.seeds = res.seeds], res.gathered, r)
        st2 == Recycle(st1, Len(st1.seeds))
    IN FullRestart(st2, r)

CommitSeeds(st) ==
    /\ seeds' = st.seeds
    /\ seedPool' = st.seedPool
    /\ trails' = st.trails
    /\ activeTrails' = st.activeTrails
    /\ trailPool' = st.trailPool
    /\ magnet' = st.magnet
    /\ spawnInterval' = st.spawnInterval
    /\ seedsRestarting' = st.seedsRestarting
    /\ restartTimeout' = st.restartTimeout
    /\ sfxPlays' = st.sfxPlays

\* a ticker frame: update(1)
SeedsUpdate ==
    /\ seedsPc = "running"
    /\ seedUpdates < MaxUpdates
    /\ \E r \in 0..1 : CommitSeeds(Update(SeedsMachine, r, 1))
    /\ seedTime' = seedTime + 5
    /\ seedUpdates' = seedUpdates + 1
    /\ UNCHANGED <<seedsMade, seedSpawns, seedsPc>>
    /\ UNCHANGED nonSeeds

\* the places a pointer goes down on the water: at the surface and near the ground
MagnetSpots == {<<SPx(360), SPx(645)>>, <<SPx(360), SPx(1240)>>}

\* pointerdown on the water
WaterDown ==
    /\ seedsPc = "running"
    /\ \E p \in MagnetSpots :
          magnet' = [active |-> TRUE, x |-> p[1], y |-> p[2], timeout |-> TRUE]
    /\ UNCHANGED <<seeds, seedPool, seedsMade, trails, activeTrails, trailPool,
                   spawnInterval, seedsRestarting, restartTimeout, seedTime, sfxPlays,
                   seedUpdates, seedSpawns, seedsPc>>
    /\ UNCHANGED nonSeeds

\* the magnet's timeout fires
MagnetOff ==
    /\ magnet.timeout
    /\ magnet' = [magnet EXCEPT !.active = FALSE, !.timeout = FALSE]
    /\ UNCHANGED <<seeds, seedPool, seedsMade, trails, activeTrails, trailPool,
                   spawnInterval, seedsRestarting, restartTimeout, seedTime, sfxPlays,
                   seedUpdates, seedSpawns, seedsPc>>
    /\ UNCHANGED nonSeeds

NewSeed(id, x, vy) ==
    [id |-> id, x |-> x, y |-> -SPx(50), vx |-> 0, vy |-> vy, state |-> "FALLING",
     floatTimer |-> 0, trail |-> 0, layer |-> "sky", tint |-> "colour"]

\* the spawn interval fires: spawnSeed
SpawnSeed ==
    /\ spawnInterval
    /\ seedSpawns < MaxSpawns
    /\ \E x \in {SPx(100)}, vy \in {SPx(2), SPx(4)} :
          IF seedPool # <<>>
          THEN /\ seeds' = Append(seeds, NewSeed(seedPool[Len(seedPool)].id, x, vy))
               /\ seedPool' = SubSeq(seedPool, 1, Len(seedPool) - 1)
               /\ UNCHANGED seedsMade
          ELSE /\ seeds' = Append(seeds, NewSeed(seedsMade + 1, x, vy))
               /\ seedsMade' = seedsMade + 1
               /\ UNCHANGED seedPool
    /\ seedSpawns' = seedSpawns + 1
    /\ UNCHANGED <<trails, activeTrails, trailPool, magnet, spawnInterval, seedsRestarting,
                   restartTimeout, seedTime, sfxPlays, seedUpdates, seedsPc>>
    /\ UNCHANGED nonSeeds

\* the restart timeout fires: SceneManager.changeScene(() => new SeedsScene())
RestartFires ==
    /\ restartTimeout
    /\ restartTimeout' = FALSE
    /\ UNCHANGED <<seeds, seedPool, seedsMade, trails, activeTrails, trailPool, magnet,
                   spawnInterval, seedsRestarting, seedTime, sfxPlays, seedUpdates,
                   seedSpawns, seedsPc>>
    /\ UNCHANGED nonSeeds

\* cleanup
SeedsCleanup ==
    /\ seedsPc = "running"
    /\ seedsPc' = "cleaned"
    /\ spawnInterval' = FALSE
    /\ magnet' = [magnet EXCEPT !.timeout = FALSE]
    /\ restartTimeout' = FALSE
    /\ trails' = [t \in 1..Len(trails) |-> [trails[t] EXCEPT !.inWater = FALSE]]
    /\ activeTrails' = <<>>
    /\ seeds' = <<>>
    /\ seedPool' = <<>>
    /\ trailPool' = <<>>
    /\ UNCHANGED <<seedsMade, seedsRestarting, seedTime, sfxPlays, seedUpdates, seedSpawns>>
    /\ UNCHANGED nonSeeds

(***************************************************************************)
(* The scenes update() starts from: n seeds within 30 px of the magnet's   *)
(* spot (floating and sinking ones at the surface; a pile of stacked ones  *)
(* and sinking ones near the ground), k seeds stacked in columns far from  *)
(* it, a sinking seed about to land, a seed exactly 30 px from the spot, a *)
(* falling seed about to reach the water, and two exploded seeds with      *)
(* trails, one of them about to leave the play area.                       *)
(***************************************************************************)
FarCounts == {0, 20, 29}

Seed(x, y, vy, state, floatTimer) ==
    [id |-> 0, x |-> x, y |-> y, vx |-> 0, vy |-> vy, state |-> state,
     floatTimer |-> floatTimer, trail |-> 0,
     layer |-> IF state = "FALLING" THEN "sky" ELSE "water", tint |-> "colour"]

NearSurface(p, j) ==
    IF j % 2 = 1
    THEN Seed(p[1] + SPx((j - 6) * 4), WATER_LEVEL, 0, "FLOATING", IF j % 4 = 1 THEN 1 ELSE 50)
    ELSE Seed(p[1] + SPx((j - 6) * 4), p[2] + SPx(j), SPx(1), "SINKING", 0)

NearGround(p, j) ==
    IF j <= 9
    THEN Seed(p[1] + SPx((((j - 1) % 3) - 1) * 16),
              GROUND_LEVEL - SPx(18 * ((j - 1) \div 3)), SPx(1), "STACKED", 0)
    ELSE Seed(p[1] + SPx((j - 11) * 8), p[2] + SPx(5), SPx(1), "SINKING", 0)

FarStacked(j) ==
    LET col == (j - 1) % 12
    IN Seed(SPx(IF col < 6 THEN 10 + 16 * col ELSE 630 + 16 * (col - 6)),
            GROUND_LEVEL - SPx(18 * ((j - 1) \div 12)), SPx(1), "STACKED", 0)

Lander == Seed(SPx(104), GROUND_LEVEL - 10, SPx(1), "SINKING", 0)

Bystanders(p) ==
    << Seed(p[1] + SPx(30), p[2], SPx(1), "SINKING", 0),
       Seed(p[1], WATER_LEVEL - SPx(1), SPx(2), "FALLING", 0),
       [Seed(p[1] + SPx(5), p[2] + SPx(5), 0, "EXPLODED", 0)
           EXCEPT !.vx = SPx(15), !.trail = 1, !.tint = "white"],
       [Seed(SPx(DESIGN_W + 195), SPx(900), 0, "EXPLODED", 0)
           EXCEPT !.vx = SPx(15), !.trail = 2, !.tint = "white"] >>

Scene(p, n, k, lander) ==
    LET raw == [j \in 1..n |-> IF p[2] < SPx(1000) THEN NearSurface(p, j) ELSE NearGround(p, j)]
               \o [j \in 1..k |-> FarStacked(j)]
               \o (IF lander THEN <<Lander>> ELSE <<>>)
               \o Bystanders(p)
    IN [i \in 1..Len(raw) |-> [raw[i] EXCEPT !.id = i]]

InitSeeds ==
    /\ SMAtRest
    /\ MTAtRest
    /\ log = <<>>
    /\ AceAtRest
    /\ SoundAtRest
    /\ MainAtRest
    /\ MagicAtRest
    /\ \E p \in MagnetSpots, n \in 0..MaxNear, k \in FarCounts, lander \in BOOLEAN,
          active \in BOOLEAN :
          /\ seeds = Scene(p, n, k, lander)
          /\ StackedCount(seeds) < FULL_STACK_THRESHOLD
          /\ seedsMade = Len(seeds)
          /\ trails = << [target |-> Len(seeds) - 1, inWater |-> TRUE],
                         [target |-> Len(seeds), inWater |-> TRUE] >>
          /\ magnet = [active |-> active, x |-> p[1], y |-> p[2], timeout |-> active]
    /\ activeTrails = <<1, 2>>
    /\ seedPool = <<>>
    /\ trailPool = <<>>
    /\ spawnInterval = TRUE
    /\ seedsRestarting = FALSE
    /\ restartTimeout = FALSE
    /\ seedTime = 0
    /\ sfxPlays = 0
    /\ seedUpdates = 0
    /\ seedSpawns = 0
    /\ seedsPc = "running"

NextSeeds ==
    \/ SeedsUpdate
    \/ WaterDown
    \/ MagnetOff
    \/ SpawnSeed
    \/ RestartFires
    \/ SeedsCleanup

SpecSeeds == InitSeeds /\ [][NextSeeds]_vars

(***************************************************************************)
(* Properties of the scene lifecycle.                                      *)
(***************************************************************************)
\* the place of the first call of op on obj in the last segment, 0 when there is none
Pos(op, obj) ==
    LET S == {i \in 1..Len(log) : log[i].op = op /\ log[i].obj = obj}
    IN IF S = {} THEN 0 ELSE CHOOSE i \in S : \A j \in S : i <= j

Called(op) == \E i \in 1..Len(log) : log[i].op = op

NonEmptyBundle(b) == b # NoBundle /\ b # ""

InFlight == call.pc \in {"loading", "waiting", "initing"}

\* A handler that calls changeScene can run only when no call is in flight: the
\* model keeps one activation record because the callers never overlap.
NoOverlap ==
    (\E id \in 1..Len(scenes) :
        \/ OnStage(id) /\ scenes[id].kind = "Menu" /\ ~scenes[id].destroyed
        \/ OnStage(id) /\ scenes[id].hasBack
        \/ scenes[id].restartTimer
        \/ bootPc = "timeout")
    => ~InFlight

\* C1: a changeScene call with a non-empty bundleId resets the loading scene's
\* progress to 0 and adds it to the stage before the bundle load starts, the
\* loading scene stays on the stage while the load, the minimum-display wait and
\* the new scene's init() are pending, and it is removed before the new scene is
\* added; a call without a bundleId (undefined or '') never puts it on the stage.
C1_LoadingScreenShown ==
    /\ (NonEmptyBundle(call.bundleId) /\ InFlight) => OnStage(loadingScene)
    /\ (NonEmptyBundle(call.bundleId) /\ Called("changeScene")) =>
          /\ 0 < Pos("setProgress", loadingScene)
          /\ log[Pos("setProgress", loadingScene)].a = 0
          /\ Pos("setProgress", loadingScene) < Pos("addChild", loadingScene)
          /\ Pos("addChild", loadingScene) < Pos("loadBundle", UNDEF)
    /\ (NonEmptyBundle(call.bundleId) /\ call.newScene # UNDEF
            /\ Pos("addChild", call.newScene) > 0) =>
          /\ 0 < Pos("removeChild", loadingScene)
          /\ Pos("removeChild", loadingScene) < Pos("addChild", call.newScene)
          /\ ~OnStage(loadingScene)
    /\ (~NonEmptyBundle(call.bundleId)) =>
          /\ Pos("addChild", loadingScene) = 0
          /\ ~OnStage(loadingScene)

C1_Witness ==
    /\ NonEmptyBundle(call.bundleId)
    /\ call.pc = "done" /\ call.promise = "resolved" /\ call.waited
    /\ Pos("removeChild", loadingScene) > 0
    /\ OnStage(call.newScene) /\ ~OnStage(loadingScene)

\* C2: a changeScene call made while a scene is current removes that scene from
\* the stage, calls its cleanup() once and destroys it, in this order and before
\* the bundle load starts and before the factory is invoked; afterwards
\* SceneManager calls update() and resize() only on scenes that were never
\* cleaned up.
C2_OldSceneTornDown ==
    /\ (Called("changeScene") /\ call.old # UNDEF) =>
          /\ 0 < Pos("removeChild", call.old)
          /\ Pos("removeChild", call.old) < Pos("cleanup", call.old)
          /\ Pos("cleanup", call.old) < Pos("destroy", call.old)
          /\ \A i \in 1..Len(log) :
                log[i].op \in {"loadBundle", "factory"} => Pos("destroy", call.old) < i
    /\ (call.old # UNDEF) =>
          /\ scenes[call.old].cleanups = 1
          /\ scenes[call.old].destroyed
          /\ ~OnStage(call.old)
          /\ currentScene # call.old
    /\ \A id \in 1..Len(scenes) : scenes[id].cleanups <= 1
    /\ \A i \in 1..Len(log) :
          log[i].op \in {"update", "resize"} =>
             /\ scenes[log[i].obj].cleanups = 0
             /\ ~scenes[log[i].obj].destroyed

C2_Witness ==
    /\ call.old # UNDEF /\ call.pc = "waiting"
    /\ scenes[call.old].cleanups = 1
    /\ Called("SceneManager.update") /\ Called("update")

\* C3: with a bundleId the new scene exists (and so can be on the stage) only
\* once MIN_LOADING_TIME has passed since the call began; the timer is set exactly
\* when the load settled earlier than that, for the remainder, and otherwise the
\* scene is created in the segment in which the load settled.
C3_MinimumDisplayTime ==
    NonEmptyBundle(call.bundleId) =>
        /\ (call.newScene # UNDEF) =>
              /\ call.createdAt - call.startTime >= 500
              /\ now - call.startTime >= 500
        /\ (call.pc \in {"waiting", "initing", "done"}) =>
              /\ call.waited <=> (call.settledAt - call.startTime < 500)
              /\ call.waited => call.deadline = call.startTime + 500
        /\ (call.newScene # UNDEF /\ ~call.waited) => call.createdAt = call.settledAt
        /\ (call.pc = "waiting") => call.newScene = UNDEF

C3_Witness ==
    /\ NonEmptyBundle(call.bundleId)
    /\ call.newScene # UNDEF /\ ~call.waited
    /\ call.settledAt - call.startTime >= 500
    /\ OnStage(call.newScene)

\* C4: a changeScene call whose bundle load failed sets the loading progress to
\* 1, creates the new scene after the load settled, makes it the current scene on
\* the stage, and its promise is fulfilled.
C4_LoadFailureGoesThrough ==
    (call.loadFailed /\ call.pc = "done") =>
        /\ scenes[loadingScene].progress = 100
        /\ call.newScene # UNDEF /\ call.createdAt >= call.settledAt
        /\ currentScene = call.newScene
        /\ OnStage(call.newScene)
        /\ call.promise = "resolved"

\* C5: the scene that becomes current gets exactly one resize from SceneManager
\* during the change, after it was added to the stage; SceneManager.resize()
\* forwards to the current scene, when there is one, and to the loading scene;
\* every resize SceneManager makes carries 720 x 1280.
C5_ResizePropagation ==
    /\ (call.pc = "done" /\ call.promise = "resolved") =>
          /\ call.resizes = 1
          /\ currentScene = call.newScene
    /\ (call.newScene # UNDEF /\ Pos("addChild", call.newScene) > 0) =>
          Pos("addChild", call.newScene) < Pos("resize", call.newScene)
    /\ (call.newScene # UNDEF /\ InFlight) => Pos("resize", call.newScene) = 0
    /\ Called("SceneManager.resize") =>
          /\ (currentScene # UNDEF) => Pos("resize", currentScene) > 0
          /\ (loadingScene # UNDEF) => Pos("resize", loadingScene) > 0
    /\ \A i \in 1..Len(log) :
          log[i].op = "resize" => log[i].a = 720 /\ log[i].b = 1280

C5_Witness ==
    /\ Called("SceneManager.resize")
    /\ currentScene # UNDEF /\ Pos("resize", currentScene) > 0
    /\ call.pc = "done" /\ call.resizes = 1 /\ HasInit(scenes[currentScene].kind)

(***************************************************************************)
(* Properties of MixedText.                                                *)
(***************************************************************************)
El(i) == objs[elements[i]]

Built == lastOp \in {"constructor", "setText", "setMaxWidth"}

\* the characters of the text no element was placed for
Uncovered ==
    {k \in 1..Len(opts.text) :
        ~\E i \in 1..Len(elements) : El(i).at <= k /\ k < El(i).at + Len(El(i).src)}

\* C6: after every build (constructor, setText, setMaxWidth) each element starts
\* a line (x = 0) or ends inside maxWidth; the elements are pieces of the text in
\* the order of the text, and only white space is left out; the first element
\* is on the first line, and each element is either right of its predecessor on
\* the same line or starts the line lineHeight + lineGap below it, so no line is
\* empty.
C6_WordWrap ==
    Built =>
        /\ \A i \in 1..Len(elements) :
              /\ El(i).x = 0 \/ El(i).x + Width(El(i)) <= opts.maxWidth
              /\ El(i).src = SubSeq(opts.text, El(i).at, El(i).at + Len(El(i).src) - 1)
              /\ El(i).src # <<>>
              /\ El(i).kind = "Text" => El(i).content = El(i).src
              /\ i = 1 => El(i).x = 0 /\ El(i).y = (LineHeight * One) \div 2
              /\ i > 1 =>
                    /\ El(i - 1).at + Len(El(i - 1).src) <= El(i).at
                    /\ \/ /\ El(i).y = El(i - 1).y
                          /\ El(i).x = El(i - 1).x + Width(El(i - 1)) + GAP * One
                       \/ /\ El(i).y = El(i - 1).y + (LineHeight + LINE_GAP) * One
                          /\ El(i).x = 0
        /\ \A k \in Uncovered : IsSpace(opts.text[k])

\* a build put a second element on the first line and wrapped the third
C6_Witness ==
    /\ Built
    /\ opts.maxWidth # Infinity
    /\ \E i \in 2..Len(elements) : El(i).x = 0 /\ El(i).y > El(i - 1).y
    /\ \E i \in 2..Len(elements) : El(i).x > 0

\* where the matches of {.*?} start in t (t starts after `off` characters)
RECURSIVE TokenStarts(_, _)
TokenStarts(t, off) ==
    LET m == FirstMatch(t)
    IN IF m[1] = 0 THEN {}
       ELSE {off + m[1]} \cup TokenStarts(SubSeq(t, m[2] + 1, Len(t)), off + m[2])

TokenEnd(at) == at - 1 + MatchEnd(SubSeq(opts.text, at, Len(opts.text)), 1)

TokenName(at) == SubSeq(opts.text, at + 1, TokenEnd(at) - 1)

CachedAlias(name) == Images(name) # "" /\ Images(name) \in texCache

\* C7: every {token} of the text has exactly one element: a sprite with the
\* cached texture when images[token] is an alias in the cache, else a sprite
\* with the placeholder texture when there is one, else a text showing the
\* token with its braces; and every sprite stands for a token.
C7_TokenElements ==
    ~mtDestroyed =>
        /\ \A at \in TokenStarts(opts.text, 0) :
              /\ Cardinality({i \in 1..Len(elements) : El(i).at = at}) = 1
              /\ \A i \in 1..Len(elements) :
                    El(i).at = at =>
                       /\ El(i).src = SubSeq(opts.text, at, TokenEnd(at))
                       /\ IF CachedAlias(TokenName(at))
                          THEN El(i).kind = "Sprite" /\ El(i).tex = Images(TokenName(at))
                          ELSE IF opts.placeholderTexture # NoTex
                          THEN El(i).kind = "Sprite" /\ El(i).tex = opts.placeholderTexture
                          ELSE El(i).kind = "Text" /\ El(i).content = El(i).src
        /\ \A i \in 1..Len(elements) :
              El(i).kind = "Sprite" => El(i).at \in TokenStarts(opts.text, 0)

Places == elements \o textPool \o spritePool

\* C8: while the instance lives, every Text and Sprite it created is in exactly
\* one place: in _elements, and then a child of the container, or in the pool
\* of its kind, and then not a child; a build returns the elements to the pools
\* before it takes anything from them, and creates a Text or Sprite only when
\* the pool of that kind is empty.
C8_Pooling ==
    ~mtDestroyed =>
        /\ \A id \in 1..Len(objs) :
              Cardinality({k \in 1..Len(Places) : Places[k] = id}) = 1
        /\ \A k \in 1..Len(Places) : Places[k] \in 1..Len(objs)
        /\ \A id \in 1..Len(objs) :
              /\ objs[id].parent <=> \E i \in 1..Len(elements) : elements[i] = id
              /\ ~objs[id].destroyed
        /\ \A i \in 1..Len(textPool) : objs[textPool[i]].kind = "Text"
        /\ \A i \in 1..Len(spritePool) : objs[spritePool[i]].kind = "Sprite"
        /\ \A i \in 1..Len(log) :
              /\ log[i].op = "new" => log[i].a = 0
              /\ log[i].op \in {"new", "reuse"} =>
                    \E j \in 1..(i - 1) : log[j].op = "returnToPool"
        /\ Built /\ lastOp # "constructor" =>
              \E j \in 1..Len(log) : log[j].op = "returnToPool"

\* a rebuild returned the elements, reused one of them and left another pooled
C8_Witness ==
    /\ lastOp \in {"setText", "setMaxWidth"}
    /\ Called("reuse")
    /\ elements # <<>>
    /\ textPool \o spritePool # <<>>
    /\ \E j \in 1..Len(log) : log[j].op = "returnToPool" /\ log[j].a > 0

BuildScale(o) == IF o.kind = "Text" THEN One ELSE SpriteScale(o.tex)

\* C9: right after stopTypewrite() returned (also inside setText, typewrite and
\* destroy) there is no timeline, isTyping is false, and every element has alpha
\* 1 and the scale build gave it: 1 for a text, the line-height-fitting scale
\* for a sprite.
C9_StopShowsEverything ==
    stopSnap.ran =>
        /\ stopSnap.timeline = "null"
        /\ ~stopSnap.isTyping
        /\ \A i \in 1..Len(stopSnap.els) :
              /\ stopSnap.els[i].alpha = 100
              /\ stopSnap.els[i].sx = BuildScale(stopSnap.els[i])
              /\ stopSnap.els[i].sy = BuildScale(stopSnap.els[i])

\* C10: isTyping is true exactly while a timeline exists and plays: from a
\* typewrite() on at least one element until the timeline completes, is
\* completed by completeTypewrite, or is killed by stopTypewrite, setText, a
\* new typewrite or destroy.
C10_IsTypingWhilePlaying ==
    /\ isTyping <=> typewriteTimeline.state = "playing"
    /\ isTyping => typewriteTimeline # NoTimeline
    /\ lastOp = "typewrite" => (isTyping <=> elements # <<>>)
    /\ lastOp \in {"stopTypewrite", "setText", "completeTypewrite", "destroy"} => ~isTyping
    /\ lastOp = "tick" =>
          (isTyping <=> typewriteTimeline.pos < Len(typewriteTimeline.targets))

\* the typewriter has run to its end on its own, after playing for a while
C10_Witness ==
    /\ lastOp = "tick"
    /\ ~isTyping
    /\ typewriteTimeline.state = "done"
    /\ Len(typewriteTimeline.targets) > 1

Playing == typewriteTimeline.state = "playing"

\* the step ran the timeline of callback k to its end
RanToEnd(k) ==
    /\ Playing /\ typewriteTimeline.cb = k
    /\ lastOp' \in {"tick", "completeTypewrite"}
    /\ typewriteTimeline'.state = "done"

\* the step is a typewrite() call, the k-th, on no elements
StartedEmpty(k) ==
    /\ lastOp' = "typewrite" /\ k = Len(cbCalls) + 1 /\ elements' = <<>>

\* C11: the onComplete passed to typewrite is called exactly once by the step
\* that runs its timeline to the end (a tick or completeTypewrite) or, at once,
\* by a typewrite() on no elements, and by no other step; so it is never called
\* twice, not while its timeline plays, and never for a timeline that
\* stopTypewrite, setText, a later typewrite or destroy killed.
C11_OnCompleteOnce ==
    /\ [](/\ \A k \in 1..Len(cbCalls) : cbCalls[k] <= 1
          /\ Playing => cbCalls[typewriteTimeline.cb] = 0
          /\ typewriteTimeline.state = "done" => cbCalls[typewriteTimeline.cb] = 1)
    /\ [][\A k \in 1..Len(cbCalls') :
             cbCalls'[k] = (IF k <= Len(cbCalls) THEN cbCalls[k] ELSE 0)
                           + (IF RanToEnd(k) \/ StartedEmpty(k) THEN 1 ELSE 0)]_vars

\* a killed timeline's callback was never called, while an earlier one was, once
C11_Witness ==
    /\ Len(cbCalls) = 2
    /\ cbCalls[1] = 1 /\ cbCalls[2] = 0
    /\ typewriteTimeline.state = "null"
    /\ lastOp \in {"stopTypewrite", "setText", "destroy"}

(***************************************************************************)
(* Properties of Ace of Shadows.                                           *)
(***************************************************************************)
AceInited == Len(cardTarget) = NUM_CARDS

Stacks == stack1 \o stack2

\* C12: after init each of the 144 cards is in exactly one of stack1 and stack2
\* (so |stack1| + |stack2| = 144), and each firing of the move timer moves
\* exactly the top card of stack1 onto the top of stack2, or changes neither
\* stack when stack1 is empty; nothing else changes the stacks.
C12_CardsConserved ==
    /\ [](AceInited =>
             /\ Len(stack1) + Len(stack2) = NUM_CARDS
             /\ {Stacks[k] : k \in 1..Len(Stacks)} = 1..NUM_CARDS)
    /\ [][/\ AceInited /\ aceFired' = aceFired + 1 =>
                IF stack1 = <<>>
                THEN UNCHANGED <<stack1, stack2>>
                ELSE /\ stack1' = SubSeq(stack1, 1, Len(stack1) - 1)
                     /\ stack2' = Append(stack2, stack1[Len(stack1)])
          /\ AceInited /\ aceFired' = aceFired => UNCHANGED <<stack1, stack2>>]_vars

\* the timer has moved some of the cards, not all
C12_Witness ==
    /\ AceInited
    /\ aceFired > 2
    /\ Len(stack1) > 0
    /\ Len(stack2) = aceFired

\* C13: while the scene runs the delayed call is never overdue at a frame and
\* fires no sooner than cardMoveDelay after the firing before; k firings have
\* moved min(k, 144) cards, so that stack2 holds the last cards of the initial
\* order reversed and from 144 firings on stack1 is empty and nothing changes;
\* the card at index i of stack2 has the target endPos + i * (offsetX, -offsetY),
\* and no two cards of stack2 share a target.
C13_OneMovePerDelay ==
    AceInited =>
        /\ Len(stack2) = (IF aceFired < NUM_CARDS THEN aceFired ELSE NUM_CARDS)
        /\ \A i \in 1..Len(stack2) : stack2[i] = NUM_CARDS + 1 - i
        /\ \A i \in 1..Len(stack1) : stack1[i] = i
        /\ aceFired >= NUM_CARDS => stack1 = <<>>
        /\ \A i \in 1..Len(stack2) :
              cardTarget[stack2[i]] =
                  <<(DESIGN_W * 10) \div 2 + 1500 + (i - 1) * 3,
                    (DESIGN_H * 10) \div 2 + 500 - (i - 1) * 15>>
        /\ Cardinality({cardTarget[stack2[i]] : i \in 1..Len(stack2)}) = Len(stack2)
        /\ aceTimer.active => aceNow < aceTimer.due
        /\ aceTimer.active /\ aceFired > 0 =>
              aceTimer.due = lastFire.at + CARD_MOVE_DELAY * 1000
        /\ aceFired > 1 => lastFire.at - lastFire.prev >= CARD_MOVE_DELAY * 1000

\* the timer has fired more than 144 times
C13_Witness ==
    /\ AceInited
    /\ isRunning
    /\ aceFired > NUM_CARDS
    /\ stack1 = <<>>
    /\ Len(stack2) = NUM_CARDS

(***************************************************************************)
(* Properties of Seeds.                                                    *)
(***************************************************************************)
\* the seeds an update that starts now gathers: those in state FLOATING, SINKING
\* or STACKED less than 30 px from the active magnet
GatheredNow ==
    {seeds[k].id : k \in {k \in 1..Len(seeds) :
        /\ magnet.active
        /\ seeds[k].state \in {"FLOATING", "SINKING", "STACKED"}
        /\ Sq(magnet.x - seeds[k].x) + Sq(magnet.y - seeds[k].y) < Sq(SPx(30))}}

LiveNow == {seeds[k].id : k \in {k \in 1..Len(seeds) : seeds[k].state # "EXPLODED"}}

\* the seed is EXPLODED after the step
ExplodedNext(id) == \E k \in 1..Len(seeds') : seeds'[k].id = id /\ seeds'[k].state = "EXPLODED"

\* after the step the seed has a trail of its own whose rope is in the water
TrailNext(id) ==
    \E k \in 1..Len(seeds') :
        /\ seeds'[k].id = id
        /\ seeds'[k].trail \in 1..Len(trails')
        /\ trails'[seeds'[k].trail] = [target |-> id, inWater |-> TRUE]
        /\ \E a \in 1..Len(activeTrails') : activeTrails'[a] = seeds'[k].trail

UpdateStep == seedUpdates' = seedUpdates + 1

RestartBegins == ~seedsRestarting /\ seedsRestarting'

\* what C14 says of the gathered seeds and of an update that gathers fewer than 10
GatheringExplodes ==
    /\ Cardinality(GatheredNow) >= 10 =>
          /\ \A id \in GatheredNow : ExplodedNext(id) /\ TrailNext(id)
          /\ ~magnet'.active
    /\ Cardinality(GatheredNow) < 10 =>
          \A id \in LiveNow : ExplodedNext(id) => RestartBegins

\* C14 as stated: in one update with at least 10 seeds gathered, exactly the
\* gathered seeds become EXPLODED, each gets a trail and the magnet is switched
\* off; with fewer than 10 gathered no seed becomes EXPLODED because of
\* gathering.
C14_ExactlyGatheredExplode ==
    [][UpdateStep =>
          /\ GatheringExplodes
          /\ Cardinality(GatheredNow) >= 10 =>
                \A id \in LiveNow \ GatheredNow : ~ExplodedNext(id)]_vars

\* C14 amended: in one update with at least 10 seeds gathered, the gathered
\* seeds become EXPLODED, each gets a trail and the magnet is switched off, and
\* any other seed becomes EXPLODED only if the same update starts the restart
\* of a full water (30 or more STACKED seeds), which explodes every seed; with
\* fewer than 10 gathered no seed becomes EXPLODED because of gathering.
C14_GatheredExplode ==
    [][UpdateStep =>
          /\ GatheringExplodes
          /\ Cardinality(GatheredNow) >= 10 =>
                \A id \in LiveNow \ GatheredNow : ExplodedNext(id) => RestartBegins]_vars

\* an update gathered 10 seeds or more and exploded them, and only them
C14_Witness ==
    /\ seedUpdates = 1
    /\ sfxPlays = 1
    /\ ~seedsRestarting
    /\ ~magnet.active
    /\ Len(activeTrails) >= 12
    /\ \E k \in 1..Len(seeds) : seeds[k].state = "SINKING"


(***************************************************************************)
(* SoundManager (src/unnamed/part_002), MuteButton (src/src/SceneManager.ts) *)
(* and the sound of PhoenixFlameScene.  Times are ms, volumes percent.     *)
(* Howl is the audio library's object: play() starts it, fade() runs a     *)
(* volume ramp that emits 'fade' when it ends, stop() ends playback and    *)
(* any running ramp, unload() stops the sound at once and destroys it.     *)
(***************************************************************************)
FADE_OUT_DURATION == 300
FIRE_LOOP_VOLUME == 50
FIRE_LOOP == "fire-loop"
SndSteps == {100, 150}

SoundMachine ==
    [sounds |-> sndSounds, howl |-> howl, muted |-> sndMuted, howlerMute |-> howlerMute,
     now |-> sndNow, times |-> phxTimes]

\* Howl.stop(): playback ends, a running fade is ended with it
HowlStop(h) ==
    [h EXCEPT !.playing = FALSE,
              !.volume = IF h.fade.active THEN h.fade.to ELSE h.volume,
              !.fade = NoHowl.fade]

\* Howl.unload(): every sound of the Howl is stopped at once, listeners go with it
HowlUnload(h) ==
    [HowlStop(h) EXCEPT !.state = "unloaded", !.onceFade = FALSE]

\* records when the loop stopped playing
NoteStop(m, h) ==
    IF m.howl.playing /\ ~h.playing
    THEN [m EXCEPT !.howl = h, !.times.stopped = m.now]
    ELSE [m EXCEPT !.howl = h]

\* SoundManager.load(key, src, options)
Load(m, volume) ==
    [m EXCEPT !.howl = [NoHowl EXCEPT !.state = "loaded", !.volume = volume],
              !.sounds = m.sounds \cup {FIRE_LOOP}]

\* SoundManager.play(key)
Play(m) ==
    IF FIRE_LOOP \in m.sounds THEN [m EXCEPT !.howl.playing = TRUE] ELSE m

\* SoundManager.fadeOut(key, duration)
FadeOut(m, duration) ==
    IF FIRE_LOOP \in m.sounds
    THEN [m EXCEPT !.howl.fade = [active |-> TRUE, to |-> 0, endsAt |-> m.now + duration],
                   !.howl.onceFade = TRUE]
    ELSE m

\* SoundManager.unload(key)
Unload(m) ==
    IF FIRE_LOOP \in m.sounds
    THEN [NoteStop(m, HowlUnload(m.howl)) EXCEPT !.sounds = m.sounds \ {FIRE_LOOP},
                                                  !.times.unloaded = m.now]
    ELSE m

ToggleMute_ReturnsOld(m) ==
    LET flipped == ~m.muted
    IN [m |-> [m EXCEPT !.muted = flipped,
                        !.howlerMute = [calls |-> m.howlerMute.calls + 1, value |-> flipped]],
        ret |-> m.muted]

\* SoundManager.toggleMute(): the machine after the call, and what it returns
ToggleMute(m) ==
    LET flipped == ~m.muted
    IN [m |-> [m EXCEPT !.muted = flipped,
                        !.howlerMute = [calls |-> m.howlerMute.calls + 1, value |-> flipped]],
        ret |-> flipped]

\* SoundManager.setMuted(muted)
SetMutedTo(m, muted) ==
    [m EXCEPT !.muted = muted, !.howlerMute = [calls |-> m.howlerMute.calls + 1, value |-> muted]]

CommitSound(m) ==
    /\ sndSounds' = m.sounds
    /\ howl' = m.howl
    /\ sndMuted' = m.muted
    /\ howlerMute' = m.howlerMute
    /\ sndNow' = m.now
    /\ phxTimes' = m.times

\* keeps the last two mute calls
Remember(c) ==
    IF Len(muteHist) < 2 THEN Append(muteHist, c) ELSE <<muteHist[2], c>>

\* new PhoenixFlameScene(): the constructor makes the MuteButton
PhxConstruct ==
    /\ phxPc \in {"none", "left"}
    /\ phxPc' = "constructed"
    /\ btnMuted' = sndMuted
    /\ phxTimes' = NoTimes
    /\ UNCHANGED <<sndSounds, howl, sndMuted, howlerMute, muteHist, muteCalls, sndNow>>
    /\ UNCHANGED nonSound

\* PhoenixFlameScene.init(): loads and starts the loop, unless an asset lookup threw first
PhxInit ==
    /\ phxPc = "constructed"
    /\ \E ok \in BOOLEAN :
          CommitSound(IF ok THEN Play(Load(SoundMachine, FIRE_LOOP_VOLUME)) ELSE SoundMachine)
    /\ phxPc' = "running"
    /\ UNCHANGED <<btnMuted, muteHist, muteCalls>>
    /\ UNCHANGED nonSound

\* PhoenixFlameScene.cleanup()
PhxCleanup ==
    /\ phxPc = "running"
    /\ CommitSound(Unload(FadeOut([SoundMachine EXCEPT !.times.left = sndNow],
                                  FADE_OUT_DURATION)))
    /\ phxPc' = "left"
    /\ UNCHANGED <<btnMuted, muteHist, muteCalls>>
    /\ UNCHANGED nonSound

\* time passes; a fade that reaches its end emits 'fade', and the listener
\* registered by fadeOut stops the sound
SoundTick ==
    /\ \E dt \in SndSteps :
          LET due  == howl.fade.active /\ howl.fade.endsAt <= sndNow + dt
              t    == IF due THEN howl.fade.endsAt ELSE sndNow + dt
              m0   == [SoundMachine EXCEPT !.now = t]
              done == [m0.howl EXCEPT !.volume = m0.howl.fade.to, !.fade = NoHowl.fade,
                                      !.onceFade = FALSE]
              m1   == IF due
                      THEN NoteStop([m0 EXCEPT !.times.fadeDone = t],
                                    IF m0.howl.onceFade THEN HowlStop(done) ELSE done)
                      ELSE m0
          IN /\ t <= MaxSndNow
             /\ CommitSound(m1)
    /\ UNCHANGED <<btnMuted, muteHist, muteCalls, phxPc>>
    /\ UNCHANGED nonSound

\* MuteButton 'pointerdown'
ClickMute ==
    /\ phxPc \in {"constructed", "running"}
    /\ muteCalls < MaxMuteCalls
    /\ LET r == ToggleMute(SoundMachine)
       IN /\ CommitSound(r.m)
          /\ btnMuted' = r.ret
          /\ muteHist' = Remember([op |-> "toggleMute", before |-> sndMuted,
                                   arg |-> FALSE, ret |-> r.ret])
    /\ muteCalls' = muteCalls + 1
    /\ UNCHANGED phxPc
    /\ UNCHANGED nonSound

\* SoundManager.setMuted(muted), called from outside
DoSetMuted ==
    /\ muteCalls < MaxMuteCalls
    /\ \E b \in BOOLEAN :
          /\ CommitSound(SetMutedTo(SoundMachine, b))
          /\ muteHist' = Remember([op |-> "setMuted", before |-> sndMuted,
                                   arg |-> b, ret |-> FALSE])
    /\ muteCalls' = muteCalls + 1
    /\ UNCHANGED <<btnMuted, phxPc>>
    /\ UNCHANGED nonSound

InitSound ==
    /\ SMAtRest
    /\ MTAtRest
    /\ log = <<>>
    /\ AceAtRest
    /\ SeedsAtRest
    /\ SoundAtRest
    /\ MainAtRest
    /\ MagicAtRest

NextSound ==
    \/ PhxConstruct
    \/ PhxInit
    \/ PhxCleanup
    \/ SoundTick
    \/ ClickMute
    \/ DoSetMuted

SpecSound == InitSound /\ [][NextSound]_vars

(***************************************************************************)
(* Properties of the sound manager                                         *)
(***************************************************************************)
\* the fire loop was playing when the scene was left
LoopLeftPlaying == phxTimes.left # -1 /\ phxTimes.stopped # -1

\* C15: when the Phoenix Flame scene is left, the fire loop is stopped only
\* after its fade of FADE_OUT_DURATION ms has finished, and it is released
\* only after that.
C15_StoppedAfterFade ==
    /\ LoopLeftPlaying => phxTimes.stopped >= phxTimes.left + FADE_OUT_DURATION
    /\ phxTimes.unloaded # -1 =>
          /\ phxTimes.fadeDone # -1
          /\ phxTimes.unloaded >= phxTimes.fadeDone

LastMute == muteHist[Len(muteHist)]

\* C18: toggleMute flips the mute state and returns the new state, two
\* toggleMute calls in a row restore the state before them, and after any
\* calls of toggleMute and setMuted the muted getter equals the value last
\* passed to Howler.mute.
C18_MuteState ==
    /\ \A k \in 1..Len(muteHist) :
          muteHist[k].op = "toggleMute" => muteHist[k].ret = ~muteHist[k].before
    /\ Len(muteHist) >= 1 =>
          /\ LastMute.op = "toggleMute" => sndMuted = LastMute.ret
          /\ LastMute.op = "setMuted" => sndMuted = LastMute.arg
    /\ (Len(muteHist) = 2 /\ muteHist[1].op = "toggleMute" /\ muteHist[2].op = "toggleMute")
          => sndMuted = muteHist[1].before
    /\ howlerMute.calls = muteCalls
    /\ muteCalls > 0 => sndMuted = howlerMute.value

C18_Witness ==
    /\ muteCalls = 3
    /\ Len(muteHist) = 2
    /\ muteHist[1].op = "toggleMute" /\ muteHist[2].op = "toggleMute"
    /\ muteHist[1].before = TRUE
    /\ sndMuted = TRUE /\ howlerMute.value = TRUE


(***************************************************************************)
(* Main (src/src/ui/MixedText.ts, lines 317-498): the canvas scale, the    *)
(* boot timers, the listeners init registers and what destroy removes.     *)
(***************************************************************************)
Max2(a, b) == IF a >= b THEN a ELSE b

\* Math.round(n / d) for n >= 0, d > 0.  The quotient is computed in doubles:
\* where the exact value ends in .5 the double can fall just below it, and
\* `below` says whether it did.
RoundHalf(n, d, below) ==
    LET q   == n \div d
        r2  == 2 * (n % d)
    IN IF r2 < d \/ (r2 = d /\ below) THEN q ELSE q + 1

ScaleOf_Uncapped(w, h) ==
    IF w * DESIGN_H <= h * DESIGN_W THEN <<w, DESIGN_W>> ELSE <<h, DESIGN_H>>

\* Math.min(w / DESIGN_W, h / DESIGN_H, 1) as a fraction <<numerator, denominator>>
ScaleOf(w, h) ==
    IF w * DESIGN_H <= h * DESIGN_W
    THEN (IF w <= DESIGN_W THEN <<w, DESIGN_W>> ELSE <<1, 1>>)
    ELSE (IF h <= DESIGN_H THEN <<h, DESIGN_H>> ELSE <<1, 1>>)

\* Main.applyFixedCanvasScale: the style it gives the canvas for a viewport
ApplyFixedCanvasScale(vp, below) ==
    LET w     == Max2(1, vp.w)
        h     == Max2(1, vp.h)
        scale == ScaleOf(w, h)
        cssW  == RoundHalf(DESIGN_W * scale[1], scale[2], below)
        cssH  == RoundHalf(DESIGN_H * scale[1], scale[2], below)
        x     == RoundHalf(2 * vp.offsetLeft + (w - cssW), 2, FALSE)
        y     == RoundHalf(2 * vp.offsetTop + (h - cssH), 2, FALSE)
    IN [set |-> TRUE, width |-> cssW, height |-> cssH, left |-> x, top |-> y]

\* the viewport offsets tried: none, and a scrolled visual viewport
Scrolled == <<13, 40>>
Offsets == {<<0, 0>>, Scrolled}

\* the resize listener runs for the viewport as it is
ScaleCanvas ==
    /\ \E below \in BOOLEAN : canvasStyle' = ApplyFixedCanvasScale(viewport, below)
    /\ UNCHANGED <<mainPc, mainTimers, mainProgress, fpsTicker, listeners, browser, viewport,
                   mainDestroyed, mainLate>>
    /\ UNCHANGED nonMain

MainMachine ==
    [timers |-> mainTimers, progress |-> mainProgress, fpsTicker |-> fpsTicker,
     listeners |-> listeners, late |-> mainLate]

\* notes a callback that ran although destroy() had returned
Ran(m, what) == IF mainDestroyed THEN [m EXCEPT !.late = m.late \cup {what}] ELSE m

\* Main.createFPSCounter()
CreateFPSCounter(m) == [m EXCEPT !.fpsTicker = [field |-> TRUE, added |-> TRUE, elapsed |-> 0]]

\* Main.setupFullscreenOnInteraction()
SetupFullscreenOnInteraction(m) ==
    IF ~browser.fullscreen THEN m
    ELSE [m EXCEPT !.listeners = m.listeners \cup {<<"canvas", "click">>}]

\* the four addEventListener calls of init
ViewportListeners ==
    {<<"window", "resize">>, <<"window", "orientationchange">>}
       \cup (IF browser.visualViewport
             THEN {<<"visualViewport", "resize">>, <<"visualViewport", "scroll">>}
             ELSE {})

\* Main.destroy(), up to app.destroy
DestroyMain(m) ==
    LET m1 == IF m.timers.interval
              THEN [m EXCEPT !.timers.interval = FALSE, !.timers.intervalLive = FALSE]
              ELSE m
        m2 == IF m1.timers.timeout
              THEN [m1 EXCEPT !.timers.timeout = FALSE, !.timers.timeoutLive = FALSE]
              ELSE m1
        m3 == IF m2.fpsTicker.field
              THEN [m2 EXCEPT !.fpsTicker = [field |-> FALSE, added |-> FALSE, elapsed |-> 0]]
              ELSE m2
    IN [m3 EXCEPT !.listeners = m3.listeners \ ViewportListeners]

CommitMain(m) ==
    /\ mainTimers' = m.timers
    /\ mainProgress' = m.progress
    /\ fpsTicker' = m.fpsTicker
    /\ listeners' = m.listeners
    /\ mainLate' = m.late

\* the viewports the window takes
Viewports == {<<360, 640>>, <<1000, 700>>}
\* what one firing of the loading interval adds to progress (percent):
\* 0.02 + Math.random() * 0.03
ProgressSteps == {2, 5}
\* ticker.deltaMS of one frame
FRAME_MS == 500

\* init() up to `await this.app.init(...)`
MainInitStart ==
    /\ mainPc = "new"
    /\ mainPc' = "appInit"
    /\ UNCHANGED <<mainTimers, mainProgress, fpsTicker, listeners, browser, viewport,
                   canvasStyle, mainDestroyed, mainLate>>
    /\ UNCHANGED nonMain

\* init() from there up to `await Assets.init(...)`
MainInitApp ==
    /\ mainPc = "appInit"
    /\ mainPc' = "assetsInit"
    /\ CommitMain(CreateFPSCounter(MainMachine))
    /\ UNCHANGED <<browser, viewport, canvasStyle, mainDestroyed>>
    /\ UNCHANGED nonMain

\* the rest of init(): scale, listeners, fullscreen, loading interval
MainInitRest ==
    /\ mainPc = "assetsInit"
    /\ mainPc' = "ready"
    /\ \E below \in BOOLEAN : canvasStyle' = ApplyFixedCanvasScale(viewport, below)
    /\ LET m1 == [MainMachine EXCEPT !.listeners = @ \cup ViewportListeners]
           m2 == SetupFullscreenOnInteraction(m1)
       IN CommitMain([m2 EXCEPT !.progress = 0,
                                !.timers.interval = TRUE, !.timers.intervalLive = TRUE])
    /\ UNCHANGED <<browser, viewport, mainDestroyed>>
    /\ UNCHANGED nonMain

\* the setInterval callback
LoadingInterval ==
    /\ mainTimers.intervalLive
    /\ \E p \in ProgressSteps :
          LET q  == mainProgress + p
              m1 == Ran(MainMachine, "setProgress")
          IN IF q >= 100
             THEN CommitMain([m1 EXCEPT !.progress = 100,
                                        !.timers.interval = FALSE,
                                        !.timers.intervalLive =
                                            IF mainTimers.interval THEN FALSE ELSE @,
                                        !.timers.timeout = TRUE,
                                        !.timers.timeoutLive = TRUE])
             ELSE CommitMain([m1 EXCEPT !.progress = q])
    /\ UNCHANGED <<mainPc, browser, viewport, canvasStyle, mainDestroyed>>
    /\ UNCHANGED nonMain

\* the setTimeout callback: SceneManager.changeScene(new MenuScene())
LoadingTimeout ==
    /\ mainTimers.timeoutLive
    /\ CommitMain([Ran(MainMachine, "changeScene")
                      EXCEPT !.timers.timeout = FALSE, !.timers.timeoutLive = FALSE])
    /\ UNCHANGED <<mainPc, browser, viewport, canvasStyle, mainDestroyed>>
    /\ UNCHANGED nonMain

\* app.ticker runs the FPS callback
FpsTick ==
    /\ fpsTicker.added
    /\ LET e == fpsTicker.elapsed + FRAME_MS
       IN CommitMain([Ran(MainMachine, "fps")
                         EXCEPT !.fpsTicker.elapsed = IF e >= 1000 THEN 0 ELSE e])
    /\ UNCHANGED <<mainPc, browser, viewport, canvasStyle, mainDestroyed>>
    /\ UNCHANGED nonMain

\* the window or its visual viewport changes and a registered listener runs
ViewportEvent ==
    /\ listeners \cap ViewportListeners # {}
    /\ \E v \in Viewports, o \in Offsets, below \in BOOLEAN :
          LET vp == [w |-> v[1], h |-> v[2],
                     offsetLeft |-> IF browser.visualViewport THEN o[1] ELSE 0,
                     offsetTop |-> IF browser.visualViewport THEN o[2] ELSE 0]
          IN /\ viewport' = vp
             /\ canvasStyle' = ApplyFixedCanvasScale(vp, below)
    /\ CommitMain(Ran(MainMachine, "applyFixedCanvasScale"))
    /\ UNCHANGED <<mainPc, browser, mainDestroyed>>
    /\ UNCHANGED nonMain

\* the first click on the canvas while it is in the document: the listener
\* was added with { once: true }
CanvasClick ==
    /\ <<"canvas", "click">> \in listeners
    /\ ~mainDestroyed
    /\ CommitMain([MainMachine EXCEPT !.listeners = @ \ {<<"canvas", "click">>}])
    /\ UNCHANGED <<mainPc, browser, viewport, canvasStyle, mainDestroyed>>
    /\ UNCHANGED nonMain

\* Main.destroy(), called once init() has returned
MainDestroy ==
    /\ mainPc = "ready"
    /\ ~mainDestroyed
    /\ CommitMain(DestroyMain(MainMachine))
    /\ mainDestroyed' = TRUE
    /\ UNCHANGED <<mainPc, browser, viewport, canvasStyle>>
    /\ UNCHANGED nonMain

InitMain ==
    /\ SMAtRest
    /\ MTAtRest
    /\ log = <<>>
    /\ AceAtRest
    /\ SeedsAtRest
    /\ SoundAtRest
    /\ MagicAtRest
    /\ mainPc = "new"
    /\ mainTimers = NoTimers
    /\ mainProgress = 0
    /\ fpsTicker = [field |-> FALSE, added |-> FALSE, elapsed |-> 0]
    /\ listeners = {}
    /\ browser \in [visualViewport : BOOLEAN, fullscreen : BOOLEAN]
    /\ \E v \in Viewports :
          viewport = [w |-> v[1], h |-> v[2], offsetLeft |-> 0, offsetTop |-> 0]
    /\ canvasStyle = NoStyle
    /\ mainDestroyed = FALSE
    /\ mainLate = {}

NextMain ==
    \/ MainInitStart
    \/ MainInitApp
    \/ MainInitRest
    \/ LoadingInterval
    \/ LoadingTimeout
    \/ FpsTick
    \/ ViewportEvent
    \/ CanvasClick
    \/ MainDestroy

SpecMain == InitMain /\ [][NextMain]_vars

InitScale ==
    /\ SMAtRest
    /\ MTAtRest
    /\ log = <<>>
    /\ AceAtRest
    /\ SeedsAtRest
    /\ SoundAtRest
    /\ MagicAtRest
    /\ mainPc = "new"
    /\ mainTimers = NoTimers
    /\ mainProgress = 0
    /\ fpsTicker = [field |-> FALSE, added |-> FALSE, elapsed |-> 0]
    /\ listeners = {}
    /\ browser = [visualViewport |-> TRUE, fullscreen |-> FALSE]
    /\ \E w \in 1..MaxViewW, h \in 1..MaxViewH :
          viewport = [w |-> w, h |-> h, offsetLeft |-> Scrolled[1], offsetTop |-> Scrolled[2]]
    /\ canvasStyle = NoStyle
    /\ mainDestroyed = FALSE
    /\ mainLate = {}

NextScale == ScaleCanvas

SpecScale == InitScale /\ [][NextScale]_vars

(***************************************************************************)
(* Properties of Main                                                      *)
(***************************************************************************)
\* C16: after Main.destroy() has returned neither boot timer can fire (no
\* later setProgress, no changeScene to the menu) and no listener or ticker
\* callback that init registered is still registered: the window and
\* visualViewport listeners, the FPS ticker callback, the canvas click
\* listener for fullscreen.
C16_DestroyCleansUp ==
    mainDestroyed =>
        /\ ~mainTimers.intervalLive
        /\ ~mainTimers.timeoutLive
        /\ mainLate \cap {"setProgress", "changeScene"} = {}
        /\ ~fpsTicker.added
        /\ listeners = {}

\* C17: for every viewport of integer width and height >= 1 the canvas is
\* never wider than 720 or higher than 1280 CSS pixels, never larger than
\* the viewport, keeps the ratio 720:1280 up to the rounding of its two
\* sides, and is centred in the viewport (offset plus half the free space,
\* rounded).
C17_CanvasFits ==
    canvasStyle.set =>
        /\ canvasStyle.width <= DESIGN_W
        /\ canvasStyle.height <= DESIGN_H
        /\ canvasStyle.width <= viewport.w
        /\ canvasStyle.height <= viewport.h
        /\ Abs(canvasStyle.width * DESIGN_H - canvasStyle.height * DESIGN_W)
              <= (DESIGN_W + DESIGN_H) \div 2
        /\ 2 * (canvasStyle.left - viewport.offsetLeft) - (viewport.w - canvasStyle.width)
              \in {0, 1}
        /\ 2 * (canvasStyle.top - viewport.offsetTop) - (viewport.h - canvasStyle.height)
              \in {0, 1}

C17_Witness ==
    /\ canvasStyle.set
    /\ viewport.w < DESIGN_W /\ viewport.h < DESIGN_H
    /\ canvasStyle.width < viewport.w
    /\ canvasStyle.height = viewport.h
    /\ (viewport.w - canvasStyle.width) % 2 = 1
    /\ viewport.offsetLeft > 0


(***************************************************************************)
(* MagicWordsScene: the dialogue lines, the tap handler and the frame      *)
(* callback that starts each line's typewriter.  Every line is a MixedText *)
(* of its own, built and animated by the operators above.                  *)
(***************************************************************************)
\* this._boxWidth - this._padX * 2
MaxTextWidth == (660 - 30 * 2) * One

\* the texts of dialogue lines: none, one word, two words
LineTexts == {<<>>, <<"a">>, <<"a", " ", "a">>}

MagicMachine ==
    [currentIndex |-> currentIndex, mixedTexts |-> mixedTexts,
     currentMixedText |-> currentMixedText, rafQueue |-> rafQueue]

\* MagicWordsScene.showDialogue(index), _isLoaded being true
ShowDialogue(s, index) ==
    LET wrap == index >= Len(dialogueData)
        i    == IF wrap THEN 0 ELSE index
        mt   == Constructed([text |-> dialogueData[i + 1], maxWidth |-> MaxTextWidth,
                             placeholderTexture |-> "placeholder"])
        id   == Len(s.mixedTexts) + 1
    IN [s EXCEPT !.currentIndex = IF wrap THEN 0 ELSE @,
                 !.mixedTexts = Append(@, [line |-> i, mt |-> mt]),
                 !.currentMixedText = id,
                 !.rafQueue = Append(@, id)]

\* this._currentMixedText?.isTyping
CurrentIsTyping(s) ==
    s.currentMixedText # 0 /\ s.mixedTexts[s.currentMixedText].mt.isTyping

\* MagicWordsScene.nextSlide()
NextSlide(s) ==
    IF CurrentIsTyping(s)
    THEN [s EXCEPT !.mixedTexts[s.currentMixedText].mt = CompleteTypewrite(@)]
    ELSE ShowDialogue([s EXCEPT !.currentIndex = @ + 1], s.currentIndex + 1)

CommitMagic(s) ==
    /\ currentIndex' = s.currentIndex
    /\ mixedTexts' = s.mixedTexts
    /\ currentMixedText' = s.currentMixedText
    /\ rafQueue' = s.rafQueue

\* the typewriter of this MixedText was started and has shown every element
Revealed(mt) ==
    /\ Len(mt.cbCalls) > 0
    /\ ~mt.isTyping
    /\ \A i \in 1..Len(mt.elements) : mt.objs[mt.elements[i]].alpha = 100

\* MagicWordsScene.init(): the data arrives and the first line is shown, or
\* the fetch fails
MagicInit ==
    /\ magicPc = "constructed"
    /\ \/ /\ magicPc' = "loaded"
          /\ CommitMagic(ShowDialogue(MagicMachine, 0))
       \/ /\ magicPc' = "failed"
          /\ UNCHANGED <<currentIndex, mixedTexts, currentMixedText, rafQueue>>
    /\ UNCHANGED <<dialogueData, taps, lastTap>>
    /\ UNCHANGED nonMagic

\* 'pointertap' on the scene: this._onTap
Tap ==
    /\ magicPc = "loaded"
    /\ taps < MaxTaps
    /\ LET s == NextSlide(MagicMachine)
       IN /\ CommitMagic(s)
          /\ lastTap' =
                [kind        |-> IF s.currentMixedText = currentMixedText
                                 THEN "completed" ELSE "advanced",
                 wasTyping   |-> mixedTexts[currentMixedText].mt.isTyping,
                 revealed    |-> Revealed(mixedTexts[currentMixedText].mt),
                 from        |-> mixedTexts[currentMixedText].line,
                 to          |-> s.mixedTexts[s.currentMixedText].line,
                 stillTyping |-> s.mixedTexts[currentMixedText].mt.isTyping]
    /\ taps' = taps + 1
    /\ UNCHANGED <<magicPc, dialogueData>>
    /\ UNCHANGED nonMagic

RECURSIVE RunCallbacks(_, _)
\* the callbacks passed to requestAnimationFrame run in the order they were
\* queued: each starts the typewriter of its MixedText
RunCallbacks(mts, queue) ==
    IF queue = <<>> THEN mts
    ELSE RunCallbacks([mts EXCEPT ![Head(queue)].mt = Typewrite(@)], Tail(queue))

\* the next animation frame
AnimationFrame ==
    /\ magicPc = "loaded"
    /\ rafQueue # <<>>
    /\ mixedTexts' = RunCallbacks(mixedTexts, rafQueue)
    /\ rafQueue' = <<>>
    /\ UNCHANGED <<magicPc, dialogueData, currentIndex, currentMixedText, taps, lastTap>>
    /\ UNCHANGED nonMagic

\* the timeline of one MixedText reveals its next element
TypewriterStep ==
    /\ magicPc = "loaded"
    /\ \E id \in 1..Len(mixedTexts) :
          /\ mixedTexts[id].mt.typewriteTimeline.state = "playing"
          /\ mixedTexts' = [mixedTexts EXCEPT ![id].mt = AdvanceTimeline(@)]
    /\ UNCHANGED <<magicPc, dialogueData, currentIndex, currentMixedText, rafQueue, taps,
                   lastTap>>
    /\ UNCHANGED nonMagic

\* MagicWordsScene.cleanup(): the tap listener is removed and the scene destroyed
MagicCleanup ==
    /\ magicPc \in {"loaded", "failed"}
    /\ magicPc' = "cleaned"
    /\ UNCHANGED <<dialogueData, currentIndex, mixedTexts, currentMixedText, rafQueue, taps,
                   lastTap>>
    /\ UNCHANGED nonMagic

InitMagic ==
    /\ SMAtRest
    /\ MTAtRest
    /\ log = <<>>
    /\ AceAtRest
    /\ SeedsAtRest
    /\ SoundAtRest
    /\ MainAtRest
    /\ magicPc = "constructed"
    /\ dialogueData \in UNION {[1..n -> LineTexts] : n \in 1..MaxLines}
    /\ currentIndex = 0
    /\ mixedTexts = <<>>
    /\ currentMixedText = 0
    /\ rafQueue = <<>>
    /\ taps = 0
    /\ lastTap = NoTap

NextMagic ==
    \/ MagicInit
    \/ Tap
    \/ AnimationFrame
    \/ TypewriterStep
    \/ MagicCleanup

SpecMagic == InitMagic /\ [][NextMagic]_vars

(***************************************************************************)
(* Properties of Magic Words                                               *)
(***************************************************************************)
\* C19: a tap that finds the current line typing completes the animation
\* and does not advance; so no line is replaced by the next before its
\* typewriter reveal has finished, and a tap that advances moves forward by
\* exactly one line (from the last line to the first).
C19_TapCompletesBeforeAdvancing ==
    /\ (lastTap.kind # "none" /\ lastTap.wasTyping) =>
          /\ lastTap.kind = "completed"
          /\ ~lastTap.stillTyping
          /\ lastTap.to = lastTap.from
    /\ lastTap.kind = "advanced" =>
          /\ lastTap.revealed
          /\ lastTap.to = (lastTap.from + 1) % Len(dialogueData)


====
